---- MODULE Spec2Model ----
(***************************************************************************)
(* A model of the SFProto quantized, delta-streamed geometry codec:        *)
(* the v6 streaming collections (geojson/v6/geojson_featurecollection.py,  *)
(* geojson_geometrycollection.py), the v6 envelope dispatcher              *)
(* (geojson/v6/geojson.py) with the v2 standalone geometry codecs it       *)
(* reuses, and the chunk framing (_pack_chunks / _unpack_chunks).          *)
(*                                                                         *)
(* A float is modelled as an exact rational [n, d] in lowest terms with    *)
(* d > 0.  A GeoJSON position is a pair <<x, y>> of floats.  A GeoJSON     *)
(* geometry is a record [type, coordinates].  A raised exception is the    *)
(* err field of an operator's result ("" when the call returns).           *)
(***************************************************************************)
EXTENDS Integers, Sequences, FiniteSets, TLC

VARIABLES
  form,      \* top-level type of the value handed to geojson_to_bytes_v6
  geoms,     \* its geometries, in order (one for a bare geometry or a Feature)
  props,     \* the "properties" member of each of its features, in order
  scale,     \* the scale argument
  pc,        \* position of the encode / decode call
  fc,        \* the stream message under construction (fc / gc in the source)
  cursor,    \* the encoder's cursor
  data,      \* the bytes geojson_to_bytes_v6 returned: [tag, chunks]
  dcursor,   \* the decoder's cursor
  dout,      \* the decoder's output list (features / geometries)
  result,    \* what bytes_to_geojson_v6 returned, or the error it raised
  encq,      \* per encoded geometry: the quantized points the encoder consumed
  decq,      \* per decoded geometry: the quantized points the decoder produced
  dbase,     \* per decoded geometry: the cursor it was decoded from
  tampered,  \* whether the stream message was altered between encode and decode
  payload,   \* chunk framing: the payload handed to _unpack_chunks
  packed,    \* chunk framing: the chunk list the payload was packed from
  edit,      \* chunk framing: how the payload was altered after packing
  upc,       \* chunk framing: position inside _unpack_chunks
  un,        \* chunk framing: n, the declared chunk count
  offset,    \* chunk framing: offset
  chunks,    \* chunk framing: chunks
  uerr,      \* chunk framing: the error _unpack_chunks raised ("" if none)
  envelope,  \* envelope: the bytes handed to bytes_to_geojson_v6 / _v7
  ever,      \* envelope: which dispatcher decodes them (6 or 7)
  ecut,      \* envelope: how many bytes the bytes lost at their end on the way
  etag,      \* envelope: the tag _unwrap returned
  epc,       \* envelope: position inside the dispatcher
  eout,      \* envelope: the decoder the chunks went to, or the error raised
  feat,      \* feature: the Feature message handed to bytes_to_geojson_feature_v5
  fout,      \* feature: out, the dictionary under construction
  fleft,     \* feature: the keys of the extension map not yet visited
  fbase,     \* feature: out as it was before the extension map was merged
  fpc,       \* feature: position inside the v5 Feature encoder and decoder
  fobj,      \* feature: the GeoJSON Feature handed to geojson_feature_to_bytes_v5
  qv,        \* quantization: the coordinate value v, a float
  qscale,    \* quantization: the scale
  qq,        \* quantization: what _quantize(v, scale) returned
  qd,        \* quantization: what _dequantize(q, scale) returned
  qpc,       \* quantization: which of the two calls has been made
  calls,     \* threads: per running call, its arguments and its local variables
  rline,     \* range: the coordinates being encoded, in degrees
  ranchor,   \* range: the absolute start point stored
  rcursor,   \* range: the encoder's cursor
  rdeltas,   \* range: the deltas stored so far
  rpc,       \* range: position of the encoder
  lcoords,   \* line: the "coordinates" member handed to geojson_linestring_to_pb
  lscale,    \* line: the scale argument
  lq,        \* line: q, the quantized points collected so far
  lg,        \* line: g, the message the loop body last made
  li,        \* line: how many pairs the loop has visited
  lpc,       \* line: position inside geojson_linestring_to_pb
  wgen,      \* tags: the generation whose geojson_to_bytes_vN writes
  rgen,      \* tags: the generation whose bytes_to_geojson_vN reads
  wobj,      \* tags: the collection written: its type and number of members
  wenv,      \* tags: the envelope written: its tag and what each chunk holds
  tpc,       \* tags: position of the write / read pair
  tout       \* tags: what the reader hands each chunk to, or the error raised

codecVars == <<form, geoms, props, scale, pc, fc, cursor, data, dcursor, dout, result,
               encq, decq, dbase, tampered>>
chunkVars == <<payload, packed, edit, upc, un, offset, chunks, uerr>>
envVars == <<envelope, ever, ecut, etag, epc, eout>>
featVars == <<feat, fout, fleft, fbase, fpc, fobj>>
quantVars == <<qv, qscale, qq, qd, qpc>>
threadVars == <<calls>>
rangeVars == <<rline, ranchor, rcursor, rdeltas, rpc>>
lineVars == <<lcoords, lscale, lq, lg, li, lpc>>
tagVars == <<wgen, rgen, wobj, wenv, tpc, tout>>
notCodecVars == <<chunkVars, envVars, featVars, quantVars, threadVars,
                  lineVars, tagVars, rangeVars>>
notChunkVars == <<codecVars, envVars, featVars, quantVars, threadVars,
                  lineVars, tagVars, rangeVars>>
vars == <<codecVars, chunkVars, envVars, featVars, quantVars, threadVars,
          lineVars, tagVars, rangeVars>>

------------------------------------------------------------------------------
(* Floats as exact rationals *)

Abs(a) == IF a < 0 THEN 0 - a ELSE a

Min(a, b) == IF a < b THEN a ELSE b

RECURSIVE GCD(_, _)
GCD(a, b) == IF b = 0 THEN a ELSE GCD(b, a % b)

\* The float n/d (d # 0), in lowest terms with a positive denominator.
Float(n, d) ==
  LET g == GCD(Abs(n), Abs(d))
      s == IF d < 0 THEN 0 - 1 ELSE 1
  IN [n |-> (s * n) \div g, d |-> Abs(d) \div g]

\* A position of GeoJSON text given in hundredths: x/100, y/100.
Pos(x, y) == <<Float(x, 100), Float(y, 100)>>

RECURSIVE SumSeq(_)
SumSeq(s) == IF Len(s) = 0 THEN 0 ELSE Head(s) + SumSeq(Tail(s))

RECURSIVE ConcatAll(_)
ConcatAll(ss) == IF Len(ss) = 0 THEN <<>> ELSE Head(ss) \o ConcatAll(Tail(ss))

\* Python's s[a:b] for 0 <= a <= b: the slice is cut at the end of s, silently.
PySlice(s, a, b) ==
  IF a >= Len(s) \/ b <= a THEN <<>> ELSE SubSeq(s, a + 1, Min(b, Len(s)))

------------------------------------------------------------------------------
(* Quantization: _q / _uq (v6), _quantize / _dequantize (v2) *)

\* round(): the nearest integer to t/d (d > 0), a tie going to the even one.
RoundHalfEven(base, r, d) ==
  IF 2 * r < d THEN base
  ELSE IF 2 * r > d THEN base + 1
  ELSE IF base % 2 = 0 THEN base ELSE base + 1

\* int(round(float(v) * scale)).  v * scale = whole*scale + rem*scale/d with
\* 0 <= rem < d, so that no intermediate product leaves the integer range.
_q(v, sc) ==
  LET whole == v.n \div v.d
      t     == (v.n % v.d) * sc
  IN RoundHalfEven(whole * sc + (t \div v.d), t % v.d, v.d)

\* A mutant of _uq: v // scale, the integer quotient.
_uq_floordiv(x, sc) == IF sc = 0 THEN Float(x, sc) ELSE Float(x \div sc, 1)

\* float(v) / float(scale); scale = 0 raises ZeroDivisionError at the caller.
_uq(x, sc) == Float(x, sc)

\* A mutant of QPoint: the two axes change places.
QPointSwapped(p, sc) == <<_q(p[2], sc), _q(p[1], sc)>>

\* (_q(x, scale), _q(y, scale)) of a position (x, y).
QPoint(p, sc) == <<_q(p[1], sc), _q(p[2], sc)>>

UQPoint(qp, sc) == <<_uq(qp[1], sc), _uq(qp[2], sc)>>

------------------------------------------------------------------------------
(* Geometry helpers of the streaming codec *)

Geom(t, c) == [type |-> t, coordinates |-> c]

GeomTypes == {"Point", "MultiPoint", "LineString", "MultiLineString",
              "Polygon", "MultiPolygon"}

\* A ring is closed when it has at least two positions and the last equals
\* the first (the test of _ring_drop_closure).
IsClosedRing(ring) ==
  /\ Len(ring) >= 2
  /\ ring[1][1] = ring[Len(ring)][1]
  /\ ring[1][2] = ring[Len(ring)][2]

\* A mutant of _ring_drop_closure: the closing position is kept.
_ring_keep_closure(ring) == ring

_ring_drop_closure(ring) ==
  IF IsClosedRing(ring) THEN SubSeq(ring, 1, Len(ring) - 1) ELSE ring

\* The first position of a geometry; indexing an empty list raises IndexError.
_first_coord_of_geometry(geom) ==
  LET t == geom.type
      c == geom.coordinates
      ok(p) == [err |-> "", xy |-> p]
      bad(e) == [err |-> e, xy |-> <<>>]
  IN CASE t = "Point" -> ok(c)
       [] t = "MultiPoint" -> IF Len(c) = 0 THEN bad("IndexError") ELSE ok(c[1])
       [] t = "LineString" -> IF Len(c) = 0 THEN bad("IndexError") ELSE ok(c[1])
       [] t = "MultiLineString" ->
            IF Len(c) = 0 \/ Len(c[1]) = 0 THEN bad("IndexError") ELSE ok(c[1][1])
       [] t = "Polygon" ->
            IF Len(c) = 0 \/ Len(c[1]) = 0 THEN bad("IndexError") ELSE ok(c[1][1])
       [] t = "MultiPolygon" ->
            IF Len(c) = 0 \/ Len(c[1]) = 0 \/ Len(c[1][1]) = 0
            THEN bad("IndexError") ELSE ok(c[1][1][1])
       [] OTHER -> bad("ValueError")

\* A mutant of PartSizes: every part counted with one point more.
PartSizesPlusOne(parts) == [k \in 1..Len(parts) |-> Len(parts[k]) + 1]

\* "part_sizes.append(len(...))" for each line or ring in turn.
PartSizes(parts) == [k \in 1..Len(parts) |-> Len(parts[k])]

Flat(g, f, ps, prc) ==
  [err |-> "", gtype |-> g, flat |-> f, part_sizes |-> ps, poly_ring_counts |-> prc]

\* A mutant of FlattenPolys: part sizes listed ring-major across polygons
\* (every polygon's first ring, then every polygon's second ring, ...).
FlattenPolysRingMajor(polys) ==
  LET maxr == IF Len(polys) = 0 THEN 0
              ELSE CHOOSE m \in {Len(polys[p]) : p \in 1..Len(polys)} :
                     \A p \in 1..Len(polys) : Len(polys[p]) <= m
      col(k) == LET ps == {p \in 1..Len(polys) : Len(polys[p]) >= k}
                    RECURSIVE pick(_)
                    pick(p) == IF p > Len(polys) THEN <<>>
                               ELSE (IF p \in ps THEN <<polys[p][k]>> ELSE <<>>)
                                    \o pick(p + 1)
                IN pick(1)
  IN ConcatAll([k \in 1..maxr |-> col(k)])

\* The rings of a MultiPolygon in the order the nested loops of
\* _flatten_geometry visit them: polygon by polygon, ring by ring.
FlattenPolys(polys) == ConcatAll(polys)

_flatten_geometry(geom) ==
  LET t == geom.type
      coords == geom.coordinates
  IN CASE t = "Point" -> Flat("POINT", <<coords>>, <<>>, <<>>)
       [] t = "MultiPoint" -> Flat("MULTIPOINT", coords, <<Len(coords)>>, <<>>)
       [] t = "LineString" -> Flat("LINESTRING", coords, <<Len(coords)>>, <<>>)
       [] t = "MultiLineString" ->
            Flat("MULTILINESTRING", ConcatAll(coords), PartSizes(coords), <<>>)
       [] t = "Polygon" ->
            LET rings == [k \in 1..Len(coords) |-> _ring_drop_closure(coords[k])]
            IN Flat("POLYGON", ConcatAll(rings), PartSizes(rings), <<>>)
       [] t = "MultiPolygon" ->
            LET polys == [p \in 1..Len(coords) |->
                           [k \in 1..Len(coords[p]) |-> _ring_drop_closure(coords[p][k])]]
                rings == FlattenPolys(polys)
            IN Flat("MULTIPOLYGON", ConcatAll(rings), PartSizes(rings),
                    [p \in 1..Len(coords) |-> Len(coords[p])])
       [] OTHER -> [err |-> "ValueError", gtype |-> "", flat |-> <<>>,
                    part_sizes |-> <<>>, poly_ring_counts |-> <<>>]

------------------------------------------------------------------------------
(* _encode_stream_geometry *)

\* The loop "for (x, y) in flat_pts": one delta per point against the cursor,
\* the cursor then moving to the point.  acc carries pb.d, qs the quantized
\* points consumed so far.
RECURSIVE EncodeLoop(_, _, _, _, _)
EncodeLoop(pts, cur, sc, acc, qs) ==
  IF Len(pts) = 0 THEN [d |-> acc, cursor |-> cur, q |-> qs]
  ELSE LET qp == QPoint(Head(pts), sc)
           dd == [dx |-> qp[1] - cur[1], dy |-> qp[2] - cur[2]]
       IN EncodeLoop(Tail(pts), qp, sc, Append(acc, dd), Append(qs, qp))

NoPb == [type |-> "", n_points |-> 0, part_sizes |-> <<>>,
         poly_ring_counts |-> <<>>, d |-> <<>>]

\* A mutant of _encode_stream_geometry: the delta chain restarts at the
\* geometry's own first point instead of continuing from the cursor.
_encode_stream_geometry_reset(geom, cursor_xy, sc) ==
  LET f == _flatten_geometry(geom)
      start == IF Len(f.flat) = 0 THEN cursor_xy ELSE QPoint(f.flat[1], sc)
      loop == EncodeLoop(f.flat, start, sc, <<>>, <<>>)
  IN IF f.err # "" THEN [err |-> f.err, pb |-> NoPb, cursor |-> cursor_xy, q |-> <<>>]
     ELSE [err |-> "",
           pb |-> [type |-> f.gtype, n_points |-> Len(f.flat),
                   part_sizes |-> f.part_sizes,
                   poly_ring_counts |-> f.poly_ring_counts, d |-> loop.d],
           cursor |-> loop.cursor, q |-> loop.q]

_encode_stream_geometry(geom, cursor_xy, sc) ==
  LET f == _flatten_geometry(geom)
      loop == EncodeLoop(f.flat, cursor_xy, sc, <<>>, <<>>)
  IN IF f.err # "" THEN [err |-> f.err, pb |-> NoPb, cursor |-> cursor_xy, q |-> <<>>]
     ELSE [err |-> "",
           pb |-> [type |-> f.gtype, n_points |-> Len(f.flat),
                   part_sizes |-> f.part_sizes,
                   poly_ring_counts |-> f.poly_ring_counts, d |-> loop.d],
           cursor |-> loop.cursor, q |-> loop.q]

------------------------------------------------------------------------------
(* _decode_stream_geometry *)

\* A mutant of DecodeLoop: every delta is applied to the cursor the call was
\* given, the cursor never moving inside the geometry.
DecodeLoopFromBase(ds, cur, qpts) ==
  LET at(k) == <<cur[1] + ds[k].dx, cur[2] + ds[k].dy>>
  IN [cursor |-> IF Len(ds) = 0 THEN cur ELSE at(Len(ds)),
      qpts |-> qpts \o [k \in 1..Len(ds) |-> at(k)]]

\* A mutant of DecodeLoop: the deltas are applied last to first.
DecodeLoopReversed(ds, cur, qpts) ==
  LET n == Len(ds)
      at(k) == <<cur[1] + SumSeq([j \in 1..k |-> ds[n + 1 - j].dx]),
                 cur[2] + SumSeq([j \in 1..k |-> ds[n + 1 - j].dy])>>
  IN [cursor |-> at(n), qpts |-> qpts \o [k \in 1..n |-> at(k)]]

\* The loop "for d in pb.d": the cursor moves by each delta and is recorded.
RECURSIVE DecodeLoop(_, _, _)
DecodeLoop(ds, cur, qpts) ==
  IF Len(ds) = 0 THEN [cursor |-> cur, qpts |-> qpts]
  ELSE LET c2 == <<cur[1] + Head(ds).dx, cur[2] + Head(ds).dy>>
       IN DecodeLoop(Tail(ds), c2, Append(qpts, c2))

\* A mutant of CloseRing: a decoded ring is left open.
CloseRingNever(ring_coords) == ring_coords

\* A mutant of CloseRing: the first point is appended only to a ring whose
\* ends differ, as the v2 ring decoder does.
CloseRingIfOpen(ring_coords) ==
  IF Len(ring_coords) > 0 /\ ring_coords[1] # ring_coords[Len(ring_coords)]
  THEN Append(ring_coords, ring_coords[1]) ELSE ring_coords

\* "if ring_coords: ring_coords.append(ring_coords[0])"
CloseRing(ring_coords) ==
  IF Len(ring_coords) > 0 THEN Append(ring_coords, ring_coords[1]) ELSE ring_coords

\* The loop "for n in part_sizes": pts[idx: idx + n], idx += n.
RECURSIVE SliceParts(_, _, _, _)
SliceParts(pts, sizes, idx, close) ==
  IF Len(sizes) = 0 THEN <<>>
  ELSE LET seg == PySlice(pts, idx, idx + Head(sizes))
       IN <<IF close THEN CloseRing(seg) ELSE seg>>
          \o SliceParts(pts, Tail(sizes), idx + Head(sizes), close)

\* The nested loops of the MULTIPOLYGON branch.  part_sizes[ring_size_idx]
\* past the end of part_sizes raises IndexError.
RECURSIVE DecodePolys(_, _, _, _, _)
DecodePolys(pts, part_sizes, counts, idx, ring_size_idx) ==
  IF Len(counts) = 0 THEN [err |-> "", polys |-> <<>>]
  ELSE LET rc == Head(counts)
       IN IF ring_size_idx + rc > Len(part_sizes)
          THEN [err |-> "IndexError", polys |-> <<>>]
          ELSE LET mine == SubSeq(part_sizes, ring_size_idx + 1, ring_size_idx + rc)
                   poly == SliceParts(pts, mine, idx, TRUE)
                   rest == DecodePolys(pts, part_sizes, Tail(counts),
                                       idx + SumSeq(mine), ring_size_idx + rc)
               IN IF rest.err # "" THEN rest
                  ELSE [err |-> "", polys |-> <<poly>> \o rest.polys]

DecErr(e, cursor_xy) ==
  [err |-> e, geom |-> Geom("", <<>>), cursor |-> cursor_xy, qpts |-> <<>>]

\* _decode_stream_geometry after its loop: the points are dequantized and
\* the nesting is rebuilt.  qpts and cur are what the loop left, cursor_xy
\* the cursor the call was given.
RebuildNesting(pb, qpts, cur, cursor_xy, sc) ==
  LET pts == [k \in 1..Len(qpts) |-> UQPoint(qpts[k], sc)]
      t == pb.type
      ok(g) == [err |-> "", geom |-> g, cursor |-> cur, qpts |-> qpts]
  IN IF sc = 0 /\ Len(qpts) > 0 THEN DecErr("ZeroDivisionError", cursor_xy)
     ELSE CASE t = "POINT" ->
                 IF Len(pts) = 0 THEN DecErr("IndexError", cursor_xy)
                 ELSE ok(Geom("Point", pts[1]))
            [] t = "MULTIPOINT" -> ok(Geom("MultiPoint", pts))
            [] t = "LINESTRING" -> ok(Geom("LineString", pts))
            [] t = "MULTILINESTRING" ->
                 ok(Geom("MultiLineString", SliceParts(pts, pb.part_sizes, 0, FALSE)))
            [] t = "POLYGON" ->
                 ok(Geom("Polygon", SliceParts(pts, pb.part_sizes, 0, TRUE)))
            [] t = "MULTIPOLYGON" ->
                 LET r == DecodePolys(pts, pb.part_sizes, pb.poly_ring_counts, 0, 0)
                 IN IF r.err # "" THEN DecErr(r.err, cursor_xy)
                    ELSE ok(Geom("MultiPolygon", r.polys))
            [] OTHER -> DecErr("ValueError", cursor_xy)

_decode_stream_geometry(pb, cursor_xy, sc) ==
  LET loop == DecodeLoop(pb.d, cursor_xy, <<>>)
  IN IF pb.n_points # Len(pb.d) THEN DecErr("ValueError", cursor_xy)
     ELSE RebuildNesting(pb, loop.qpts, loop.cursor, cursor_xy, sc)

------------------------------------------------------------------------------
(* The v2 standalone geometry codecs reused by geojson_to_bytes_v6.  A v2     *)
(* Geometry message is [crs_scale, which, body]: which names the member of    *)
(* the oneof "geom" that is set ("" when none is), as HasField reports it     *)
(* after a serialize / parse round trip.  A member is set by the first write  *)
(* below it (an assignment or an add()); a loop that never runs sets none.    *)

DEFAULT_SCALE_V2 == 1000
DEFAULT_SCALE_V2_1E7 == 10000000

Msg(sc, w, b) == [crs_scale |-> sc, which |-> w, body |-> b]

EncErr(e) == [err |-> e, msg |-> Msg(0, "", <<>>)]

EncOk(m) == [err |-> "", msg |-> m]

\* _fill_delta_line / _fill_delta_ring, and the inner loop of
\* geojson_linestring_to_pb: start = q[0], then the differences of neighbours.
DeltaLine(q) ==
  [start |-> q[1],
   dx |-> [k \in 1..(Len(q) - 1) |-> q[k + 1][1] - q[k][1]],
   dy |-> [k \in 1..(Len(q) - 1) |-> q[k + 1][2] - q[k][2]]]

QLine(line, sc) == [k \in 1..Len(line) |-> QPoint(line[k], sc)]

\* _quantize_ring: at least 4 positions, closed in quantized space.
_quantize_ring(ring, sc) ==
  LET q == QLine(ring, sc)
      closed == IF Len(q) > 0 /\ q[1] # q[Len(q)] THEN Append(q, q[1]) ELSE q
  IN IF Len(ring) < 4 THEN [err |-> "ValueError", q |-> <<>>]
     ELSE IF Len(closed) < 4 THEN [err |-> "ValueError", q |-> <<>>]
     ELSE [err |-> "", q |-> closed]

geojson_point_to_pb(obj, sc) ==
  IF obj.type # "Point" THEN EncErr("ValueError")
  ELSE IF sc <= 0 THEN EncErr("ValueError")
  ELSE EncOk(Msg(sc, "point", QPoint(obj.coordinates, sc)))

\* No _require_scale here; g.multipoint is set by the first points.add().
geojson_multipoint_to_pb(obj, sc) ==
  IF obj.type # "MultiPoint" THEN EncErr("ValueError")
  ELSE LET coords == obj.coordinates
       IN EncOk(Msg(sc, IF Len(coords) = 0 THEN "" ELSE "multipoint",
                    QLine(coords, sc)))

geojson_linestring_to_pb(obj, sc) ==
  IF obj.type # "LineString" THEN EncErr("ValueError")
  ELSE IF Len(obj.coordinates) < 2 THEN EncErr("ValueError")
  ELSE IF sc <= 0 THEN EncErr("ValueError")
  ELSE EncOk(Msg(sc, "line_string", DeltaLine(QLine(obj.coordinates, sc))))

geojson_multilinestring_to_pb(obj, sc) ==
  LET lines == obj.coordinates
  IN IF obj.type # "MultiLineString" THEN EncErr("ValueError")
     ELSE IF Len(lines) = 0 THEN EncErr("ValueError")
     ELSE IF sc <= 0 THEN EncErr("ValueError")
     ELSE IF \E k \in 1..Len(lines) : Len(lines[k]) < 2 THEN EncErr("ValueError")
     ELSE EncOk(Msg(sc, "multilinestring",
                    [k \in 1..Len(lines) |-> DeltaLine(QLine(lines[k], sc))]))

geojson_polygon_to_pb(obj, sc) ==
  LET rings == obj.coordinates
      qr(k) == _quantize_ring(rings[k], sc)
  IN IF obj.type # "Polygon" THEN EncErr("ValueError")
     ELSE IF Len(rings) = 0 THEN EncErr("ValueError")
     ELSE IF sc <= 0 THEN EncErr("ValueError")
     ELSE IF \E k \in 1..Len(rings) : qr(k).err # "" THEN EncErr("ValueError")
     ELSE EncOk(Msg(sc, "polygon", [k \in 1..Len(rings) |-> DeltaLine(qr(k).q)]))

\* g.multipolygon is set by the first polygons.add().
geojson_multipolygon_to_pb(obj, sc) ==
  LET polygons == obj.coordinates
      qr(p, k) == _quantize_ring(polygons[p][k], sc)
  IN IF obj.type # "MultiPolygon" THEN EncErr("ValueError")
     ELSE IF sc <= 0 THEN EncErr("ValueError")
     ELSE IF \E p \in 1..Len(polygons) :
               \/ Len(polygons[p]) = 0
               \/ \E k \in 1..Len(polygons[p]) : qr(p, k).err # ""
          THEN EncErr("ValueError")
     ELSE EncOk(Msg(sc, IF Len(polygons) = 0 THEN "" ELSE "multipolygon",
                    [p \in 1..Len(polygons) |->
                      [k \in 1..Len(polygons[p]) |-> DeltaLine(qr(p, k).q)]]))

\* _geometry_to_bytes_v2: dispatch on the GeoJSON type.
_geometry_to_bytes_v2(geometry, sc) ==
  LET t == geometry.type
  IN CASE t = "Point" -> geojson_point_to_pb(geometry, sc)
       [] t = "MultiPoint" -> geojson_multipoint_to_pb(geometry, sc)
       [] t = "LineString" -> geojson_linestring_to_pb(geometry, sc)
       [] t = "MultiLineString" -> geojson_multilinestring_to_pb(geometry, sc)
       [] t = "Polygon" -> geojson_polygon_to_pb(geometry, sc)
       [] t = "MultiPolygon" -> geojson_multipolygon_to_pb(geometry, sc)
       [] OTHER -> EncErr("ValueError")

\* "int(getattr(g.crs, 'scale', 0)) or DEFAULT_SCALE", then _require_scale.
DecScale(m, dflt) == IF m.crs_scale = 0 THEN dflt ELSE m.crs_scale

\* zip(dx, dy) stops at the shorter list.
RECURSIVE WalkLine(_, _, _, _, _)
WalkLine(dx, dy, x, y, sc) ==
  IF Len(dx) = 0 \/ Len(dy) = 0 THEN <<>>
  ELSE LET x2 == x + Head(dx)
           y2 == y + Head(dy)
       IN <<UQPoint(<<x2, y2>>, sc)>> \o WalkLine(Tail(dx), Tail(dy), x2, y2, sc)

\* _decode_delta_line
_decode_delta_line(pb_line, sc) ==
  <<UQPoint(pb_line.start, sc)>>
    \o WalkLine(pb_line.dx, pb_line.dy, pb_line.start[1], pb_line.start[2], sc)

\* _decode_delta_ring: the same walk, then closed if the ends differ.
_decode_delta_ring(pb_ring, sc) ==
  LET coords == _decode_delta_line(pb_ring, sc)
  IN IF coords[1] # coords[Len(coords)] THEN Append(coords, coords[1]) ELSE coords

GeoErr(e) == [err |-> e, geom |-> Geom("", <<>>)]

GeoOk(g) == [err |-> "", geom |-> g]

\* A mutant of HasField: the multilinestring decoder also takes a message
\* whose polygon member is set (both hold a list of delta lines).
HasFieldOrRings(g, name) ==
  g.which = name \/ (name = "multilinestring" /\ g.which = "polygon")

\* g.HasField(name), for a member of the oneof "geom".
HasField(g, name) == g.which = name

\* The six pb_to_geojson_* decoders: each raises unless its own member is set.
pb_to_geojson(kind, g) ==
  LET dflt == IF kind \in {"polygon", "multilinestring"}
              THEN DEFAULT_SCALE_V2_1E7 ELSE DEFAULT_SCALE_V2
      sc == DecScale(g, dflt)
  IN IF ~HasField(g, kind) THEN GeoErr("ValueError")
     ELSE IF sc <= 0 THEN GeoErr("ValueError")
     ELSE CASE kind = "point" -> GeoOk(Geom("Point", UQPoint(g.body, sc)))
            [] kind = "multipoint" ->
                 GeoOk(Geom("MultiPoint",
                            [k \in 1..Len(g.body) |-> UQPoint(g.body[k], sc)]))
            [] kind = "line_string" ->
                 GeoOk(Geom("LineString", _decode_delta_line(g.body, sc)))
            [] kind = "multilinestring" ->
                 IF \E k \in 1..Len(g.body) : Len(g.body[k].dx) # Len(g.body[k].dy)
                 THEN GeoErr("ValueError")
                 ELSE GeoOk(Geom("MultiLineString",
                            [k \in 1..Len(g.body) |-> _decode_delta_line(g.body[k], sc)]))
            [] kind = "polygon" ->
                 IF \E k \in 1..Len(g.body) : Len(g.body[k].dx) # Len(g.body[k].dy)
                 THEN GeoErr("ValueError")
                 ELSE GeoOk(Geom("Polygon",
                            [k \in 1..Len(g.body) |-> _decode_delta_ring(g.body[k], sc)]))
            [] kind = "multipolygon" ->
                 IF \E p \in 1..Len(g.body) : \E k \in 1..Len(g.body[p]) :
                      Len(g.body[p][k].dx) # Len(g.body[p][k].dy)
                 THEN GeoErr("ValueError")
                 ELSE GeoOk(Geom("MultiPolygon",
                            [p \in 1..Len(g.body) |->
                              [k \in 1..Len(g.body[p]) |->
                                _decode_delta_ring(g.body[p][k], sc)]]))

\* _GEOM_DECODERS_V2, in the order they are tried.
_GEOM_DECODERS_V2 ==
  <<"point", "multipoint", "polygon", "multipolygon", "line_string", "multilinestring">>

\* _bytes_to_geometry_v2: the first decoder that does not raise wins.
RECURSIVE TryDecoders(_, _)
TryDecoders(decs, g) ==
  IF Len(decs) = 0 THEN GeoErr("ValueError")
  ELSE LET r == pb_to_geojson(Head(decs), g)
       IN IF r.err = "" THEN r ELSE TryDecoders(Tail(decs), g)

_bytes_to_geometry_v2(g) == TryDecoders(_GEOM_DECODERS_V2, g)

------------------------------------------------------------------------------
(* Inputs *)

MaxPts == 2      \* positions in a MultiPoint, a LineString
MaxParts == 2    \* lines, rings, polygons in a geometry
MaxGeoms == 2    \* geometries in a collection of several

PA == Pos(0, 0)
PB == Pos(50, 0)
PC == Pos(250, 0 - 150)
Pts == {PA, PB, PC}

\* The scale arguments calls are made with; 0 is the non-positive one.
Scales == {0, 1, 3}

SeqsUpTo(S, lo, hi) == UNION {[1..k -> S] : k \in lo..hi}

\* The ring of the polygon scenario: [[0,0],[10,0],[10,10],[0,10],[0,0]].
SquareRing == <<Pos(0, 0), Pos(1000, 0), Pos(1000, 1000), Pos(0, 1000), Pos(0, 0)>>

RingPool == {<<PA, PB, PC>>, <<PA, PB, PC, PA>>, <<PA, PB, PA>>, <<PA>>, <<>>,
             <<PA, PC, PC, PB>>, SquareRing}

LinePool == {<<PA>>, <<PA, PB>>, <<PC, PB, PA>>}

PolyPool == {<<<<PA, PB, PC, PA>>, SquareRing>>, <<<<PB, PC, PA>>>>, <<<<PA, PB, PA>>>>}

\* The geometries of one kind that inputs are drawn from.
GeomsOfType(t) ==
  LET cs == CASE t = "Point" -> Pts
              [] t = "MultiPoint" -> SeqsUpTo(Pts, 0, MaxPts)
              [] t = "LineString" -> SeqsUpTo(Pts, 0, MaxPts)
              [] t = "MultiLineString" -> SeqsUpTo(LinePool, 0, MaxParts)
              [] t = "Polygon" -> SeqsUpTo(RingPool, 0, MaxParts)
              [] t = "MultiPolygon" -> SeqsUpTo(PolyPool, 0, MaxParts)
  IN {Geom(t, c) : c \in cs}

\* A feature whose "geometry" member is null or missing (in a
\* GeometryCollection: a member that is null).
NoGeometry == Geom("null", <<>>)

\* isinstance(geom, dict)
IsObject(g) == g.type # "null"

\* The geometries that collections of several members are made of.
Members ==
  <<Geom("Point", PA), Geom("Point", PC),
    Geom("MultiPoint", <<>>), Geom("MultiPoint", <<PB, PC>>),
    Geom("LineString", <<PC, PA>>),
    Geom("MultiLineString", <<<<PA, PB>>, <<PC>>>>),
    Geom("Polygon", <<<<PA, PB, PC, PA>>>>),
    Geom("MultiPolygon", <<<<<<PB, PC, PA>>, <<PA, PB, PA>>>>, <<<<PA, PB, PC>>>>>>),
    NoGeometry>>

Forms == {"Geometry", "Feature", "GeometryCollection", "FeatureCollection"}
CollForms == {"GeometryCollection", "FeatureCollection"}

\* The two Point features of the feature-collection scenario, scale 10,000,000.
ScenarioPoints ==
  [geoms |-> <<Geom("Point", Pos(490, 5237)), Geom("Point", Pos(500, 5240))>>,
   scale |-> 10000000]

\* The polygon scenario, scale 1000.
ScenarioPolygon == [geoms |-> <<Geom("Polygon", <<SquareRing>>)>>, scale |-> 1000]

------------------------------------------------------------------------------
(* The calls: geojson_to_bytes_v6, then bytes_to_geojson_v6 on its bytes *)

NoFc == [crs_scale |-> 0, global_start |-> <<0, 0>>, geometries |-> <<>>]
NoData == [tag |-> "", chunks |-> <<>>]
NoResult == [err |-> "", type |-> "", members |-> <<>>, properties |-> <<>>]

ChunkIdle ==
  /\ payload = <<>> /\ packed = <<>> /\ edit = "none" /\ upc = "idle"
  /\ un = 0 /\ offset = 0 /\ chunks = <<>> /\ uerr = ""

EnvIdle ==
  /\ envelope = <<>> /\ ever = 0 /\ ecut = 0 /\ etag = <<>>
  /\ epc = "idle" /\ eout = ""

NoFeat == [geometry |-> "", properties |-> "{}", id |-> "", bbox |-> <<>>, extra |-> <<>>]

NoObj == [geometry |-> "", properties |-> "", id |-> "", bbox |-> <<>>, extra |-> <<>>]

FeatIdle ==
  /\ feat = NoFeat /\ fout = <<>> /\ fleft = {} /\ fbase = <<>> /\ fpc = "idle"
  /\ fobj = NoObj

QuantIdle ==
  /\ qv = Float(0, 1) /\ qscale = 0 /\ qq = 0 /\ qd = Float(0, 1) /\ qpc = "idle"

ThreadsIdle == calls = <<>>

RangeIdle ==
  /\ rline = <<>> /\ ranchor = <<0, 0>> /\ rcursor = <<0, 0>> /\ rdeltas = <<>>
  /\ rpc = "idle"

LineIdle ==
  /\ lcoords = <<>> /\ lscale = 0 /\ lq = <<>> /\ lg = Msg(0, "", <<>>) /\ li = 0
  /\ lpc = "idle"

NoEnvelope == [tag |-> <<>>, chunks |-> <<>>]

NoRead == [err |-> "", expects |-> <<>>]

TagsIdle ==
  /\ wgen = 0 /\ rgen = 0 /\ wobj = [type |-> "", n |-> 0] /\ wenv = NoEnvelope
  /\ tpc = "idle" /\ tout = NoRead

\* The "properties" members features are given: null, or an object.
PropsPool == {"null", "{\"a\": 1}"}

Start(f, gs, sc) ==
  /\ form = f /\ geoms = gs /\ scale = sc
  /\ props \in IF f \in {"Feature", "FeatureCollection"}
               THEN [1..Len(gs) -> PropsPool] ELSE {<<>>}
  /\ pc = "start"
  /\ fc = NoFc /\ cursor = <<0, 0>> /\ data = NoData
  /\ dcursor = <<0, 0>> /\ dout = <<>> /\ result = NoResult
  /\ encq = <<>> /\ decq = <<>> /\ dbase = <<>> /\ tampered = FALSE
  /\ ChunkIdle /\ EnvIdle /\ FeatIdle /\ QuantIdle /\ ThreadsIdle /\ RangeIdle
  /\ LineIdle /\ TagsIdle

Init ==
  \/ \E f \in Forms, sc \in Scales, t \in GeomTypes :
       \E g \in GeomsOfType(t) : Start(f, <<g>>, sc)
  \/ \E f \in CollForms, sc \in Scales, k \in 2..MaxGeoms :
       \E ix \in [1..k -> 1..Len(Members)] :
         Start(f, [j \in 1..k |-> Members[ix[j]]], sc)
  \/ \E f \in CollForms : Start(f, ScenarioPoints.geoms, ScenarioPoints.scale)
  \/ \E f \in CollForms : Start(f, ScenarioPolygon.geoms, ScenarioPolygon.scale)

Raise(e) ==
  /\ pc' = "enc_error"
  /\ result' = [err |-> e, type |-> "", members |-> <<>>, properties |-> <<>>]

\* geojson_to_bytes_v6 on a Feature or a bare geometry: the v2 encoder of the
\* geometry's kind, in one chunk under FEAT or GEOM.
EncodeStandalone ==
  /\ pc = "start" /\ form \in {"Geometry", "Feature"}
  /\ LET r == _geometry_to_bytes_v2(geoms[1], scale)
     IN IF r.err # ""
        THEN Raise(r.err) /\ UNCHANGED data
        ELSE /\ data' = [tag |-> IF form = "Feature" THEN "FEAT" ELSE "GEOM",
                         chunks |-> <<r.msg>>]
             /\ pc' = "encoded"
             /\ UNCHANGED result
  /\ UNCHANGED <<form, geoms, props, scale, fc, cursor, dcursor, dout, encq, decq,
                 dbase, tampered, notCodecVars>>

\* geojson_featurecollection_to_bytes_v6 / geojson_geometrycollection_to_bytes_v6
\* up to their loop: the global start is the quantized first coordinate of the
\* first geometry, and the cursor starts there.
EncodeCollectionStart ==
  /\ pc = "start" /\ form \in CollForms
  /\ LET first == _first_coord_of_geometry(geoms[1])
     IN IF Len(geoms) = 0 THEN Raise("ValueError") /\ UNCHANGED <<fc, cursor>>
        ELSE IF ~IsObject(geoms[1])
        THEN Raise(IF form = "FeatureCollection" THEN "ValueError"
                   ELSE "AttributeError") /\ UNCHANGED <<fc, cursor>>
        ELSE IF first.err # "" THEN Raise(first.err) /\ UNCHANGED <<fc, cursor>>
        ELSE LET start == QPoint(first.xy, scale)
             IN /\ fc' = [crs_scale |-> scale, global_start |-> start,
                          geometries |-> <<>>]
                /\ cursor' = start
                /\ pc' = "enc_loop"
                /\ UNCHANGED result
  /\ UNCHANGED <<form, geoms, props, scale, data, dcursor, dout, encq, decq, dbase,
                 tampered, notCodecVars>>

\* A mutant of EncodeMember: a member without a geometry object is stored as
\* a StreamGeometry of no points.
EncodeMemberLenient(g, cur, sc) ==
  IF ~IsObject(g)
  THEN [err |-> "", pb |-> [NoPb EXCEPT !.type = "POINT"], cursor |-> cur, q |-> <<>>]
  ELSE _encode_stream_geometry(g, cur, sc)

\* The body of the loop: the member must be an object, then it is encoded.
EncodeMember(g, cur, sc) ==
  IF ~IsObject(g)
  THEN [err |-> "ValueError", pb |-> NoPb, cursor |-> cur, q |-> <<>>]
  ELSE _encode_stream_geometry(g, cur, sc)

\* One iteration of "for feat in feats" / "for g in geoms".
EncodeGeometry ==
  /\ pc = "enc_loop" /\ Len(fc.geometries) < Len(geoms)
  /\ LET r == EncodeMember(geoms[Len(fc.geometries) + 1], cursor, scale)
     IN IF r.err # ""
        THEN Raise(r.err) /\ UNCHANGED <<fc, cursor, encq>>
        ELSE /\ fc' = [fc EXCEPT !.geometries = Append(@, r.pb)]
             /\ cursor' = r.cursor
             /\ encq' = Append(encq, r.q)
             /\ UNCHANGED <<pc, result>>
  /\ UNCHANGED <<form, geoms, props, scale, data, dcursor, dout, decq, dbase, tampered,
                 notCodecVars>>

\* The loop is over: SerializeToString, one chunk under FCOL or GCOL.
EncodeCollectionFinish ==
  /\ pc = "enc_loop" /\ Len(fc.geometries) = Len(geoms)
  /\ data' = [tag |-> IF form = "FeatureCollection" THEN "FCOL" ELSE "GCOL",
              chunks |-> <<fc>>]
  /\ pc' = "encoded"
  /\ UNCHANGED <<form, geoms, props, scale, fc, cursor, dcursor, dout, result, encq,
                 decq, dbase, tampered, notCodecVars>>

\* The StreamGeometry messages that differ from pb in one declared count or by
\* one lost delta: what a decoder can be handed in place of the encoder's bytes.
AlteredStreamGeometries(pb) ==
  {[pb EXCEPT !.n_points = @ + 1]}
    \cup {[pb EXCEPT !.d = Tail(@)] : x \in {1} \cap {Len(pb.d)}}
    \cup {[pb EXCEPT !.part_sizes[i] = @ + 1] : i \in DOMAIN pb.part_sizes}
    \cup {[pb EXCEPT !.part_sizes[i] = @ - 1] :
            i \in {j \in DOMAIN pb.part_sizes : pb.part_sizes[j] > 0}}
    \cup {[pb EXCEPT !.poly_ring_counts[i] = @ + 1] : i \in DOMAIN pb.poly_ring_counts}
    \cup {[pb EXCEPT !.poly_ring_counts[i] = @ - 1] :
            i \in {j \in DOMAIN pb.poly_ring_counts : pb.poly_ring_counts[j] > 0}}

\* The bytes reach the decoder altered: one StreamGeometry of the collection
\* carries a count that its points do not match.
Tamper ==
  /\ pc = "encoded" /\ data.tag \in {"FCOL", "GCOL"} /\ ~tampered
  /\ \E k \in 1..Len(data.chunks[1].geometries) :
       \E v \in AlteredStreamGeometries(data.chunks[1].geometries[k]) :
         data' = [data EXCEPT !.chunks[1].geometries[k] = v]
  /\ tampered' = TRUE
  /\ UNCHANGED <<form, geoms, props, scale, pc, fc, cursor, dcursor, dout, result, encq,
                 decq, dbase, notCodecVars>>

\* bytes_to_geojson_v6 under GEOM or FEAT: _bytes_to_geometry_v2 /
\* bytes_to_geojson_feature_v2 try the six decoders in the same order.
DecodeStandalone ==
  /\ pc = "encoded" /\ data.tag \in {"GEOM", "FEAT"}
  /\ LET r == _bytes_to_geometry_v2(data.chunks[1])
     IN IF r.err # ""
        THEN /\ pc' = "dec_error"
             /\ result' = [err |-> r.err, type |-> "", members |-> <<>>,
                           properties |-> <<>>]
        ELSE /\ pc' = "decoded"
             /\ result' = [err |-> "",
                           type |-> IF data.tag = "FEAT" THEN "Feature" ELSE "Geometry",
                           members |-> <<r.geom>>,
                           properties |-> IF data.tag = "FEAT" THEN <<"null">>
                                          ELSE <<>>]
  /\ UNCHANGED <<form, geoms, props, scale, fc, cursor, data, dcursor, dout, encq, decq,
                 dbase, tampered, notCodecVars>>

\* bytes_to_geojson_featurecollection_v6 / ..._geometrycollection_v6 up to
\* their loop: the cursor starts at the stored global start.
DecodeCollectionStart ==
  /\ pc = "encoded" /\ data.tag \in {"FCOL", "GCOL"}
  /\ dcursor' = data.chunks[1].global_start
  /\ dout' = <<>>
  /\ pc' = "dec_loop"
  /\ UNCHANGED <<form, geoms, props, scale, fc, cursor, data, result, encq, decq, dbase,
                 tampered, notCodecVars>>

\* One iteration of "for pb_geom in fc.geometries".
DecodeGeometry ==
  /\ pc = "dec_loop" /\ Len(dout) < Len(data.chunks[1].geometries)
  /\ LET m == data.chunks[1]
         r == _decode_stream_geometry(m.geometries[Len(dout) + 1], dcursor, m.crs_scale)
     IN IF r.err # ""
        THEN /\ pc' = "dec_error"
             /\ result' = [err |-> r.err, type |-> "", members |-> <<>>,
                           properties |-> <<>>]
             /\ UNCHANGED <<dcursor, dout, decq, dbase>>
        ELSE /\ dcursor' = r.cursor
             /\ dout' = Append(dout, r.geom)
             /\ decq' = Append(decq, r.qpts)
             /\ dbase' = Append(dbase, dcursor)
             /\ UNCHANGED <<pc, result>>
  /\ UNCHANGED <<form, geoms, props, scale, fc, cursor, data, encq, tampered,
                 notCodecVars>>

\* The loop is over: the collection is returned.
DecodeCollectionFinish ==
  /\ pc = "dec_loop" /\ Len(dout) = Len(data.chunks[1].geometries)
  /\ result' = [err |-> "",
                type |-> IF data.tag = "FCOL" THEN "FeatureCollection"
                         ELSE "GeometryCollection",
                members |-> dout,
                properties |-> IF data.tag = "FCOL"
                               THEN [k \in 1..Len(dout) |-> "null"] ELSE <<>>]
  /\ pc' = "decoded"
  /\ UNCHANGED <<form, geoms, props, scale, fc, cursor, data, dcursor, dout, encq, decq,
                 dbase, tampered, notCodecVars>>

Next ==
  \/ EncodeStandalone
  \/ EncodeCollectionStart
  \/ EncodeGeometry
  \/ EncodeCollectionFinish
  \/ Tamper
  \/ DecodeStandalone
  \/ DecodeCollectionStart
  \/ DecodeGeometry
  \/ DecodeCollectionFinish

Spec == Init /\ [][Next]_vars

------------------------------------------------------------------------------
(* Properties of the streaming codec *)

Last(s) == s[Len(s)]

Streaming == form \in CollForms

\* A ring's length without its closing position.
OpenLen(ring) == IF IsClosedRing(ring) THEN Len(ring) - 1 ELSE Len(ring)

\* The nesting of a geometry: its kind and the sizes of its parts.
Shape(g) ==
  LET c == g.coordinates
  IN CASE g.type = "Point" -> <<"Point">>
       [] g.type = "MultiPoint" -> <<"MultiPoint", Len(c)>>
       [] g.type = "LineString" -> <<"LineString", Len(c)>>
       [] g.type = "MultiLineString" ->
            <<"MultiLineString", [k \in 1..Len(c) |-> Len(c[k])]>>
       [] g.type = "Polygon" ->
            <<"Polygon", [k \in 1..Len(c) |-> OpenLen(c[k])]>>
       [] g.type = "MultiPolygon" ->
            <<"MultiPolygon",
              [p \in 1..Len(c) |-> [k \in 1..Len(c[p]) |-> OpenLen(c[p][k])]]>>
       [] OTHER -> <<"">>

\* C1: with the bytes unaltered, the quantized points the decoder produces
\* are, index by index across the whole collection, the quantized points the
\* encoder consumed; once the decode has returned, all of them.
C1_StreamInverse ==
  (Streaming /\ ~tampered /\ pc \in {"dec_loop", "decoded"}) =>
    LET e == ConcatAll(encq)
        d == ConcatAll(decq)
    IN /\ Len(d) <= Len(e)
       /\ \A i \in 1..Len(d) : d[i] = e[i]
       /\ (pc = "decoded" => Len(d) = Len(e))

C1_Witness ==
  /\ Streaming /\ ~tampered /\ pc = "decoded"
  /\ Len(geoms) >= 2
  /\ Len(decq[1]) >= 2 /\ Len(decq[2]) >= 2
  /\ decq[2][1] # decq[1][1]

\* C2: the cursor is not reset between geometries.  On encode, the first
\* delta of geometry N+1 is its first quantized point minus the last
\* quantized point of geometry N (both having points); on decode, geometry
\* N+1 is decoded from the cursor returned after geometry N.
C2_CursorCarries ==
  /\ \A N \in 1..(Len(fc.geometries) - 1) :
       (Len(encq[N]) > 0 /\ Len(encq[N + 1]) > 0) =>
         /\ fc.geometries[N + 1].d[1].dx = encq[N + 1][1][1] - Last(encq[N])[1]
         /\ fc.geometries[N + 1].d[1].dy = encq[N + 1][1][2] - Last(encq[N])[2]
  /\ \A N \in 1..(Len(dout) - 1) :
       dbase[N + 1] = IF Len(decq[N]) > 0 THEN Last(decq[N]) ELSE dbase[N]

C2_Witness ==
  /\ Streaming /\ pc = "decoded" /\ ~tampered
  /\ Len(dout) >= 2
  /\ Len(encq[1]) > 0 /\ Len(encq[2]) > 0
  /\ Last(encq[1]) # encq[2][1]
  /\ Last(encq[1]) # fc.global_start

\* C3: whatever geojson_to_bytes_v6 returned bytes for decodes, with
\* bytes_to_geojson_v6, to a value of the same top-level type, and a bare
\* geometry to the same kind with the same nesting.
C3_RoundTripKeepsType ==
  (~tampered /\ pc \in {"decoded", "dec_error"}) =>
    /\ result.err = ""
    /\ result.type = form
    /\ (form = "Geometry" => Shape(result.members[1]) = Shape(geoms[1]))

\* C4: every geometry the streaming decoder returns has the kind and the
\* nesting of the geometry that was encoded: the same part counts, the same
\* rings per polygon in polygon order, the same points per part (rings
\* without their closing point).
C4_StreamKeepsShape ==
  (Streaming /\ ~tampered) =>
    \A k \in 1..Len(dout) : Shape(dout[k]) = Shape(geoms[k])

C4_Witness ==
  /\ Streaming /\ ~tampered /\ pc = "decoded"
  /\ \E k \in 1..Len(geoms) :
       /\ geoms[k].type = "MultiPolygon"
       /\ Len(geoms[k].coordinates) = 2
       /\ Len(geoms[k].coordinates[1]) = 2
       /\ Len(geoms[k].coordinates[2]) = 1
       /\ OpenLen(geoms[k].coordinates[1][2]) # OpenLen(geoms[k].coordinates[2][1])

\* The ring without its last position, and the polygon with ring r opened.
OpenRing(ring) == SubSeq(ring, 1, Len(ring) - 1)

WithRingOpened(g, r) == [g EXCEPT !.coordinates[r] = OpenRing(@)]

\* The ring as GeoJSON wants it: its first position repeated at the end.
ClosedForm(ring) == IF IsClosedRing(ring) THEN ring ELSE Append(ring, ring[1])

Requantized(ring, sc) == [k \in 1..Len(ring) |-> UQPoint(QPoint(ring[k], sc), sc)]

\* C5: a Polygon ring supplied closed and the same ring supplied open (its
\* closing position left out) give the same StreamGeometry from the same
\* cursor, and every non-empty ring, closed or open, decodes to its closed
\* form on the scale's grid.
C5_ClosedAndOpenRingAgree ==
  /\ (pc = "enc_loop" /\ Len(fc.geometries) < Len(geoms)) =>
       LET g == geoms[Len(fc.geometries) + 1]
       IN g.type = "Polygon" =>
            \A r \in 1..Len(g.coordinates) :
              (IsClosedRing(g.coordinates[r]) /\ ~IsClosedRing(OpenRing(g.coordinates[r]))) =>
                _encode_stream_geometry(WithRingOpened(g, r), cursor, scale).pb
                  = _encode_stream_geometry(g, cursor, scale).pb
  /\ (Streaming /\ ~tampered) =>
       \A k \in 1..Len(dout) :
         geoms[k].type = "Polygon" =>
           \A r \in 1..Len(geoms[k].coordinates) :
             Len(geoms[k].coordinates[r]) > 0 =>
               dout[k].coordinates[r]
                 = Requantized(ClosedForm(geoms[k].coordinates[r]), scale)

C5_Witness ==
  /\ Streaming /\ ~tampered /\ pc = "decoded"
  /\ geoms[1].type = "Polygon"
  /\ Len(geoms[1].coordinates) >= 1
  /\ IsClosedRing(geoms[1].coordinates[1])
  /\ OpenLen(geoms[1].coordinates[1]) = 3
  /\ Len(dout[1].coordinates[1]) = 4

IsPolygonScenario == geoms = ScenarioPolygon.geoms /\ scale = ScenarioPolygon.scale

Delta(x, y) == [dx |-> x, dy |-> y]

\* C6 as stated: three deltas for the four points of the square.
C6_PolygonScenarioAsStated ==
  (IsPolygonScenario /\ pc = "decoded" /\ ~tampered) =>
    /\ fc.geometries[1].n_points = 4
    /\ fc.geometries[1].part_sizes = <<4>>
    /\ fc.global_start = <<0, 0>>
    /\ fc.geometries[1].d = <<Delta(10000, 0), Delta(0, 10000), Delta(0 - 10000, 0)>>
    /\ result.members[1].coordinates = <<SquareRing>>

\* C6: the square [[0,0],[10,0],[10,10],[0,10],[0,0]] at scale 1000 encodes to
\* point_count 4, part_sizes [4], start anchor (0,0) and four deltas, the
\* first being the zero delta of the first point against the anchor:
\* [(0,0),(10000,0),(0,10000),(-10000,0)]; it decodes back to the square.
C6_PolygonScenario ==
  (IsPolygonScenario /\ pc = "decoded" /\ ~tampered) =>
    /\ fc.geometries[1].n_points = 4
    /\ fc.geometries[1].part_sizes = <<4>>
    /\ fc.global_start = <<0, 0>>
    /\ fc.geometries[1].d
         = <<Delta(0, 0), Delta(10000, 0), Delta(0, 10000), Delta(0 - 10000, 0)>>
    /\ result.members[1].coordinates = <<SquareRing>>

C6_Witness == IsPolygonScenario /\ pc = "decoded" /\ ~tampered /\ result.err = ""

IsPointScenario ==
  form = "FeatureCollection" /\ geoms = ScenarioPoints.geoms /\ scale = ScenarioPoints.scale

\* C7 as stated: the second feature's delta is (100000, 300000).
C7_PointScenarioAsStated ==
  (IsPointScenario /\ pc = "encoded") =>
    /\ fc.global_start = <<49000000, 523700000>>
    /\ fc.geometries[2].d = <<Delta(100000, 300000)>>

\* C7: the global start anchor is the quantized first coordinate of the first
\* feature's geometry and the later features continue the delta chain from
\* it: Points (4.9, 52.37) and (5.0, 52.40) at scale 10,000,000 give the
\* anchor (49000000, 523700000), a zero first delta and the delta
\* (1000000, 300000) for the second feature.
C7_PointScenario ==
  /\ (Streaming /\ pc \in {"enc_loop", "encoded"}) =>
       fc.global_start = QPoint(_first_coord_of_geometry(geoms[1]).xy, scale)
  /\ (IsPointScenario /\ pc = "encoded") =>
       /\ fc.global_start = <<49000000, 523700000>>
       /\ fc.geometries[1].d = <<Delta(0, 0)>>
       /\ fc.geometries[2].d = <<Delta(1000000, 300000)>>

C7_Witness == IsPointScenario /\ pc = "encoded" /\ Len(fc.geometries) = 2

\* C8 as stated: sum(part_sizes) = n_points for every kind.
C8_CountsAsStated ==
  \A k \in 1..Len(fc.geometries) :
    LET pb == fc.geometries[k]
    IN /\ SumSeq(pb.part_sizes) = pb.n_points
       /\ (pb.type = "MULTIPOLYGON" => SumSeq(pb.poly_ring_counts) = Len(pb.part_sizes))

\* C8: every StreamGeometry the encoder produces of a kind other than Point
\* has sum(part_sizes) = n_points; a Point has no part sizes and one point; a
\* MultiPolygon also has sum(poly_ring_counts) = len(part_sizes).
C8_Counts ==
  \A k \in 1..Len(fc.geometries) :
    LET pb == fc.geometries[k]
    IN /\ (pb.type # "POINT" => SumSeq(pb.part_sizes) = pb.n_points)
       /\ (pb.type = "POINT" => pb.part_sizes = <<>> /\ pb.n_points = 1)
       /\ (pb.type = "MULTIPOLYGON" => SumSeq(pb.poly_ring_counts) = Len(pb.part_sizes))
       /\ pb.n_points = Len(pb.d)

C8_Witness ==
  /\ pc = "encoded" /\ Len(fc.geometries) = 2
  /\ fc.geometries[1].type = "MULTIPOLYGON" /\ fc.geometries[1].n_points >= 6
  /\ fc.geometries[2].type = "POINT"

\* The declared counts of a StreamGeometry agree with its points.
Consistent(pb) ==
  /\ pb.n_points = Len(pb.d)
  /\ (pb.type # "POINT" => SumSeq(pb.part_sizes) = Len(pb.d))
  /\ (pb.type = "MULTIPOLYGON" => SumSeq(pb.poly_ring_counts) = Len(pb.part_sizes))

\* C9: the decoder returns no geometry for a StreamGeometry whose declared
\* counts disagree with its points: every geometry it has returned comes from
\* a consistent message.
C9_InconsistentCountsRaise ==
  pc \in {"dec_loop", "decoded"} =>
    \A k \in 1..Len(dout) : Consistent(data.chunks[1].geometries[k])

\* C14: a call of geojson_to_bytes_v6 with a scale that is not positive gets
\* no further than raising: it starts no stream message and returns no bytes,
\* whatever the form of its input.
C14_NonPositiveScaleRejected ==
  scale <= 0 => pc \in {"start", "enc_error"}

\* The rings of a Polygon or MultiPolygon, in order.
RingsOf(g) ==
  IF g.type = "Polygon" THEN g.coordinates
  ELSE IF g.type = "MultiPolygon" THEN ConcatAll(g.coordinates)
  ELSE <<>>

\* C15: the streaming encoder emits no StreamGeometry for a Polygon or
\* MultiPolygon holding a ring with fewer than 3 points once its closing
\* point is removed: at a positive scale, every geometry it has emitted has
\* rings of 3 or more.
C15_DegenerateRingRejected ==
  scale > 0 =>
    \A k \in 1..Len(fc.geometries) :
      \A r \in 1..Len(RingsOf(geoms[k])) : OpenLen(RingsOf(geoms[k])[r]) >= 3

\* C16: the streaming encoder emits no StreamGeometry for a LineString of
\* fewer than 2 coordinates: at a positive scale, every LineString it has
\* emitted has 2 or more.
C16_ShortLineStringRejected ==
  scale > 0 =>
    \A k \in 1..Len(fc.geometries) :
      geoms[k].type = "LineString" => Len(geoms[k].coordinates) >= 2

\* The loop of the container encoders run to its end over gs: the
\* StreamGeometry messages in order, the cursor carried from one to the next.
RECURSIVE ReEncodeLoop(_, _, _, _)
ReEncodeLoop(gs, cur, sc, acc) ==
  IF Len(gs) = 0 THEN [err |-> "", geometries |-> acc]
  ELSE LET r == _encode_stream_geometry(Head(gs), cur, sc)
       IN IF r.err # "" THEN [err |-> r.err, geometries |-> <<>>]
          ELSE ReEncodeLoop(Tail(gs), r.cursor, sc, Append(acc, r.pb))

\* The container encoder applied to the geometries gs: what its message holds.
ReEncode(gs, sc) ==
  LET first == _first_coord_of_geometry(gs[1])
  IN IF Len(gs) = 0 THEN [err |-> "ValueError", fc |-> NoFc]
     ELSE IF first.err # "" THEN [err |-> first.err, fc |-> NoFc]
     ELSE LET start == QPoint(first.xy, sc)
              loop == ReEncodeLoop(gs, start, sc, <<>>)
          IN IF loop.err # "" THEN [err |-> loop.err, fc |-> NoFc]
             ELSE [err |-> "",
                   fc |-> [crs_scale |-> sc, global_start |-> start,
                           geometries |-> loop.geometries]]

\* C18: encoding what the decoder returned for encode(x), with the same
\* scale, gives the same anchor, the same structure metadata (kind, n_points,
\* part_sizes, poly_ring_counts) and the same deltas as encode(x).
C18_ReEncodeStable ==
  (Streaming /\ ~tampered /\ pc = "decoded") =>
    ReEncode(result.members, scale) = [err |-> "", fc |-> fc]

C18_Witness ==
  /\ Streaming /\ ~tampered /\ pc = "decoded"
  /\ scale = 3 /\ Len(geoms) = 2
  /\ geoms[1].type = "MultiPolygon" /\ geoms[1].coordinates[1][1] = <<PB, PC, PA>>
  /\ Len(result.members[1].coordinates[1][1]) = 4
  /\ result.members[1].coordinates[1][1][1] # PB
  /\ Len(fc.geometries[2].d) > 0
  /\ ReEncode(result.members, scale).fc.geometries = fc.geometries

\* The cursor _encode_stream_geometry was given for the k-th geometry: the
\* anchor, or the last quantized point before it.
RECURSIVE EncBase(_)
EncBase(k) ==
  IF k = 1 THEN fc.global_start
  ELSE IF Len(encq[k - 1]) > 0 THEN Last(encq[k - 1])
  ELSE EncBase(k - 1)

\* Every permutation of 1..n, for the short sequences.
PermutationsUpTo ==
  [n \in 0..(MaxPts + 1) |->
    {p \in [1..n -> 1..n] : \A i, j \in 1..n : i # j => p[i] # p[j]}]

\* The orders n deltas can be applied in: every permutation of 1..n for short
\* sequences; for longer ones every exchange of two, the reversal and the
\* rotation by one.
Reorderings(n) ==
  IF n <= MaxPts + 1 THEN PermutationsUpTo[n]
  ELSE {[k \in 1..n |-> IF k = i THEN j ELSE IF k = j THEN i ELSE k] :
          i, j \in 1..n}
       \cup {[k \in 1..n |-> n + 1 - k], [k \in 1..n |-> (k % n) + 1]}

Reordered(d, p) == [k \in 1..Len(d) |-> d[p[k]]]

\* C19: while and after the encoder runs, applied to the cursor the encoder
\* started from, the deltas of an encoded geometry give back, in the encoding
\* order, the quantized points the encoder consumed, and in every order that
\* is a different sequence of deltas a different sequence of points.
C19_DeltaOrderMatters ==
  (pc \in {"enc_loop", "encoded", "enc_error"} /\ ~tampered) =>
    \A k \in 1..Len(fc.geometries) :
      LET d == fc.geometries[k].d
          inOrder == DecodeLoop(d, EncBase(k), <<>>).qpts
      IN /\ inOrder = encq[k]
         /\ \A p \in Reorderings(Len(d)) :
              Reordered(d, p) # d =>
                DecodeLoop(Reordered(d, p), EncBase(k), <<>>).qpts # inOrder

C19_Witness ==
  /\ pc = "encoded" /\ ~tampered
  /\ Len(fc.geometries) = 2
  /\ LET d == fc.geometries[2].d
     IN /\ Len(d) = 3
        /\ d[1] # d[2] /\ d[2] # d[3] /\ d[1] # d[3]
        /\ DecodeLoop(<<d[2], d[1], d[3]>>, EncBase(2), <<>>).qpts[3] = encq[2][3]
        /\ DecodeLoop(<<d[2], d[1], d[3]>>, EncBase(2), <<>>).qpts[1] # encq[2][1]

\* C23: a FeatureCollection with a feature that has no geometry object, at
\* any position, never yields bytes: the encoder gets no further than the
\* features before it and ends with an error.
C23_MissingGeometryRaises ==
  (form = "FeatureCollection" /\ \E k \in 1..Len(geoms) : ~IsObject(geoms[k])) =>
    /\ pc \in {"start", "enc_loop", "enc_error"}
    /\ data = NoData
    /\ \A k \in 1..Len(fc.geometries) : IsObject(geoms[k])
    /\ (pc = "enc_error" => result.err # "")

C23_Witness ==
  /\ form = "FeatureCollection" /\ scale > 0 /\ Len(geoms) = 2
  /\ IsObject(geoms[1]) /\ ~IsObject(geoms[2])
  /\ pc = "enc_error" /\ result.err = "ValueError"
  /\ Len(fc.geometries) = 1 /\ data = NoData

\* C24: decoding the bytes of a Feature or of a FeatureCollection returns
\* each feature with the properties it was encoded with.
C24_PropertiesPreserved ==
  (~tampered /\ pc = "decoded" /\ form \in {"Feature", "FeatureCollection"}) =>
    result.properties = props

\* C30: every ring of a Polygon or MultiPolygon the streaming decoder has
\* returned is closed whenever it is non-empty: its first and last positions
\* are equal, and, the StreamGeometry being as the encoder produced it, it
\* has one position more than its entry of part_sizes.
C30_ReturnedRingsClosed ==
  Streaming =>
    \A k \in 1..Len(dout) :
      \A j \in 1..Len(RingsOf(dout[k])) :
        LET ring == RingsOf(dout[k])[j]
        IN Len(ring) > 0 =>
             /\ ring[1] = ring[Len(ring)]
             /\ (~tampered =>
                   Len(ring) = data.chunks[1].geometries[k].part_sizes[j] + 1)

\* A Polygon whose first ring is a single point and whose second is open has
\* been decoded from the stream the encoder wrote: the rings came
\* back closed, the single point as two positions.
C30_Witness ==
  /\ Streaming /\ pc = "decoded" /\ ~tampered /\ Len(dout) = 1
  /\ geoms[1] = Geom("Polygon", <<<<PA>>, <<PA, PB, PC>>>>)
  /\ data.chunks[1].geometries[1].part_sizes = <<1, 3>>
  /\ Len(dout[1].coordinates[1]) = 2
  /\ Len(dout[1].coordinates[2]) = 4
  /\ dout[1].coordinates[2][1] = dout[1].coordinates[2][4]

\* The GeoJSON type each decoder of _GEOM_DECODERS_V2 returns.
TypeOfField(name) ==
  CASE name = "point" -> "Point"
    [] name = "multipoint" -> "MultiPoint"
    [] name = "line_string" -> "LineString"
    [] name = "multilinestring" -> "MultiLineString"
    [] name = "polygon" -> "Polygon"
    [] name = "multipolygon" -> "MultiPolygon"

\* The decoders that do not raise on message g.
Accepting(g) ==
  {k \in {_GEOM_DECODERS_V2[i] : i \in 1..Len(_GEOM_DECODERS_V2)} :
     pb_to_geojson(k, g).err = ""}

\* Every order that starts the trial at another decoder, forwards and
\* backwards: each decoder is tried first in one of them.
TrialOrders ==
  LET n == Len(_GEOM_DECODERS_V2)
      rot(r) == [i \in 1..n |-> _GEOM_DECODERS_V2[((i + r - 1) % n) + 1]]
      rev(o) == [i \in 1..n |-> o[n + 1 - i]]
  IN {rot(r) : r \in 0..(n - 1)} \cup {rev(rot(r)) : r \in 0..(n - 1)}

\* C29: of the six decoders _bytes_to_geometry_v2 tries on a standalone
\* geometry message at most one accepts it, the one whose member of the
\* oneof is set; so the trial returns the same geometry, of the kind of
\* that member, in whatever order the decoders are tried, and a message with
\* no member set is rejected.
C29_AtMostOneDecoderAccepts ==
  (pc \in {"decoded", "dec_error"} /\ data.tag \in {"GEOM", "FEAT"}) =>
    LET g == data.chunks[1]
    IN /\ Cardinality(Accepting(g)) <= 1
       /\ \A k \in Accepting(g) : g.which = k
       /\ \A o \in TrialOrders : TryDecoders(o, g) = _bytes_to_geometry_v2(g)
       /\ (result.err = "" => result.members[1].type = TypeOfField(g.which))
       /\ (g.which = "" => pc = "dec_error")

\* A polygon message went through the trial: the point and multipoint
\* decoders raised on it, the polygon decoder returned it.
C29_Witness ==
  /\ pc = "decoded" /\ data.tag = "GEOM"
  /\ data.chunks[1].which = "polygon"
  /\ Accepting(data.chunks[1]) = {"polygon"}
  /\ result.members[1].type = "Polygon"

------------------------------------------------------------------------------
(* Chunk framing: _pack_chunks / _unpack_chunks (identical in v6 and v7) *)

MaxChunks == 2     \* chunks in a packed list
MaxChunkLen == 1   \* bytes in a chunk

\* Byte values of chunk bodies, and byte values an altered payload may carry
\* (a count or a length stays within the integers of the checker).
ChunkBytes == {0, 1}
AlteredBytes == {0, 1, 2, 127}

\* A mutant of U32: the four bytes least significant first.
U32LittleEndian(n) ==
  <<n % 256, (n \div 256) % 256, (n \div 65536) % 256, (n \div 16777216) % 256>>

\* struct.pack(">I", n): four bytes, most significant first.
U32(n) == <<(n \div 16777216) % 256, (n \div 65536) % 256, (n \div 256) % 256, n % 256>>

\* struct.unpack(">I", mv[at:at + 4]) for at + 4 <= len(mv).
ReadU32(mv, at) ==
  ((mv[at + 1] * 256 + mv[at + 2]) * 256 + mv[at + 3]) * 256 + mv[at + 4]

RECURSIVE PackLoop(_)
PackLoop(cs) ==
  IF Len(cs) = 0 THEN <<>> ELSE U32(Len(Head(cs))) \o Head(cs) \o PackLoop(Tail(cs))

\* A mutant of _pack_chunks: a padding byte follows the last chunk.
_pack_chunks_padded(cs) == U32(Len(cs)) \o PackLoop(cs) \o <<0>>

_pack_chunks(cs) == U32(Len(cs)) \o PackLoop(cs)

\* A mutant of TrailingBytes: bytes left after the last chunk are ignored.
TrailingBytesIgnored(off, mv) == FALSE

\* "if offset != len(mv)" after the loop.
TrailingBytes(off, mv) == off # Len(mv)

\* "if offset + ln > len(mv)" inside the loop.
ChunkTruncated(off, ln, mv) == off + ln > Len(mv)

ChunkLists == SeqsUpTo(SeqsUpTo(ChunkBytes, 0, MaxChunkLen), 0, MaxChunks)

CodecIdle ==
  /\ form = "" /\ geoms = <<>> /\ props = <<>> /\ scale = 0 /\ pc = "idle"
  /\ fc = NoFc /\ cursor = <<0, 0>> /\ data = NoData
  /\ dcursor = <<0, 0>> /\ dout = <<>> /\ result = NoResult
  /\ encq = <<>> /\ decq = <<>> /\ dbase = <<>> /\ tampered = FALSE

InitChunks ==
  /\ CodecIdle /\ EnvIdle /\ FeatIdle /\ QuantIdle /\ ThreadsIdle /\ RangeIdle
  /\ LineIdle /\ TagsIdle
  /\ packed \in ChunkLists
  /\ payload = _pack_chunks(packed)
  /\ edit = "none" /\ upc = "ready"
  /\ un = 0 /\ offset = 0 /\ chunks = <<>> /\ uerr = ""

\* The payload reaches _unpack_chunks cut short.
Truncate ==
  /\ upc = "ready" /\ edit = "none"
  /\ \E k \in 0..(Len(payload) - 1) : payload' = SubSeq(payload, 1, k)
  /\ edit' = "truncate"
  /\ UNCHANGED <<notChunkVars, packed, upc, un, offset, chunks, uerr>>

\* The payload reaches _unpack_chunks with a byte after its last chunk.
AppendByte ==
  /\ upc = "ready" /\ edit = "none"
  /\ \E b \in AlteredBytes : payload' = Append(payload, b)
  /\ edit' = "append"
  /\ UNCHANGED <<notChunkVars, packed, upc, un, offset, chunks, uerr>>

\* The payload reaches _unpack_chunks with one byte changed.
SetByte ==
  /\ upc = "ready" /\ edit = "none"
  /\ \E i \in 1..Len(payload), b \in AlteredBytes :
       /\ b # payload[i]
       /\ payload' = [payload EXCEPT ![i] = b]
  /\ edit' = "set"
  /\ UNCHANGED <<notChunkVars, packed, upc, un, offset, chunks, uerr>>

UnpackRaise(e) ==
  /\ upc' = "raised" /\ uerr' = e

\* _unpack_chunks up to its loop: the payload holds a count, or the call raises.
UnpackStart ==
  /\ upc = "ready"
  /\ IF Len(payload) < 4
     THEN UnpackRaise("too short") /\ UNCHANGED <<un, offset, chunks>>
     ELSE /\ un' = ReadU32(payload, 0)
          /\ offset' = 4
          /\ chunks' = <<>>
          /\ upc' = "loop"
          /\ UNCHANGED uerr
  /\ UNCHANGED <<notChunkVars, payload, packed, edit>>

\* One iteration of "for _ in range(n)".
UnpackChunk ==
  /\ upc = "loop" /\ Len(chunks) < un
  /\ IF offset + 4 > Len(payload)
     THEN UnpackRaise("truncated") /\ UNCHANGED <<offset, chunks>>
     ELSE LET ln == ReadU32(payload, offset)
              off2 == offset + 4
          IN IF ChunkTruncated(off2, ln, payload)
             THEN UnpackRaise("truncated chunk") /\ UNCHANGED <<offset, chunks>>
             ELSE /\ chunks' = Append(chunks, PySlice(payload, off2, off2 + ln))
                  /\ offset' = off2 + ln
                  /\ UNCHANGED <<upc, uerr>>
  /\ UNCHANGED <<notChunkVars, payload, packed, edit, un>>

\* After the loop: trailing bytes raise, otherwise the chunks are returned.
UnpackFinish ==
  /\ upc = "loop" /\ Len(chunks) = un
  /\ IF TrailingBytes(offset, payload)
     THEN UnpackRaise("trailing bytes")
     ELSE upc' = "returned" /\ UNCHANGED uerr
  /\ UNCHANGED <<notChunkVars, payload, packed, edit, un, offset, chunks>>

NextChunks ==
  \/ Truncate
  \/ AppendByte
  \/ SetByte
  \/ UnpackStart
  \/ UnpackChunk
  \/ UnpackFinish

SpecChunks == InitChunks /\ [][NextChunks]_vars

\* C10: _unpack_chunks returns a chunk list only when the declared count and
\* the declared lengths consume the payload exactly (the list packs back to
\* the payload, byte for byte); it raises when the payload ends before a
\* declared length field or chunk body and when bytes remain after the last
\* declared chunk: a packed payload cut short or followed by a byte is never
\* accepted, an unaltered one always is.
C10_UnpackConsumesExactly ==
  /\ upc = "returned" =>
       /\ Len(chunks) = un
       /\ offset = Len(payload)
       /\ _pack_chunks(chunks) = payload
  /\ (upc \in {"returned", "raised"} /\ edit \in {"truncate", "append"}) => upc = "raised"
  /\ (upc \in {"returned", "raised"} /\ edit = "none") => upc = "returned" /\ chunks = packed
  /\ (upc = "raised" /\ uerr = "too short") => Len(payload) < 4
  /\ (upc = "raised" /\ uerr = "truncated") => Len(payload) < offset + 4
  /\ (upc = "raised" /\ uerr = "truncated chunk") =>
       Len(payload) < offset + 4 + ReadU32(payload, offset)
  /\ (upc = "raised" /\ uerr = "trailing bytes") => Len(payload) > offset

C10_Witness ==
  /\ upc = "raised" /\ uerr = "truncated chunk" /\ edit = "truncate"
  /\ Len(chunks) = 1 /\ un = 2

------------------------------------------------------------------------------
(* The envelope: _wrap / _unwrap and the tag dispatch of bytes_to_geojson_v6 *)
(* and bytes_to_geojson_v7                                                  *)

_TAG_LEN == 4

\* b"GEOM", b"GCOL", b"FEAT", b"FCOL", b"GCV7", b"FCV7" as byte values.
_TAG_GEOM == <<71, 69, 79, 77>>
_TAG_GCOL == <<71, 67, 79, 76>>
_TAG_FEAT == <<70, 69, 65, 84>>
_TAG_FCOL == <<70, 67, 79, 76>>
_TAG_GC7 == <<71, 67, 86, 55>>
_TAG_FC7 == <<70, 67, 86, 55>>

\* The tags each dispatcher has a branch for.
KnownTags(v) ==
  IF v = 6 THEN {_TAG_GEOM, _TAG_GCOL, _TAG_FEAT, _TAG_FCOL}
  ELSE {_TAG_GEOM, _TAG_GCOL, _TAG_FEAT, _TAG_FCOL, _TAG_GC7, _TAG_FC7}

\* Four-byte tags no dispatcher knows: b"XXXX", b"GEOX", b"geom".
ForeignTags == {<<88, 88, 88, 88>>, <<71, 69, 79, 88>>, <<103, 101, 111, 109>>}

TagPool == KnownTags(7) \cup ForeignTags

Versions == {6, 7}

\* tag + payload; a tag of another length raises.
_wrap(tag, pl) ==
  IF Len(tag) # _TAG_LEN THEN [err |-> "ValueError", bytes |-> <<>>]
  ELSE [err |-> "", bytes |-> tag \o pl]

\* data[:_TAG_LEN], data[_TAG_LEN:]; fewer than four bytes raise.
_unwrap(d) ==
  IF Len(d) < _TAG_LEN THEN [err |-> "ValueError", tag |-> <<>>, payload |-> <<>>]
  ELSE [err |-> "", tag |-> PySlice(d, 0, _TAG_LEN), payload |-> PySlice(d, _TAG_LEN, Len(d))]

Delegate(dec) == [err |-> "", decoder |-> dec]

DispatchErr(e) == [err |-> e, decoder |-> ""]

\* A mutant of OneChunk: the first chunk is decoded whatever their number.
OneChunkOrMore(cs, name, dec) ==
  IF Len(cs) = 0 THEN DispatchErr("IndexError") ELSE Delegate(dec)

\* "if len(chunks) != 1: raise ValueError(...)", then the decoder is called.
OneChunk(cs, name, dec) ==
  IF Len(cs) # 1 THEN DispatchErr("Invalid " \o name \o " payload") ELSE Delegate(dec)

\* A mutant of Dispatch: a tag without a branch is tried as a v2 geometry.
DispatchWithFallback(v, tag, cs) ==
  IF tag \in KnownTags(v) /\ Len(cs) = 1 THEN Delegate("known")
  ELSE Delegate("_bytes_to_geometry_v2")

\* The "if tag == ..." chain of bytes_to_geojson_v6 (v = 6) and of
\* bytes_to_geojson_v7 (v = 7): the decoder the chunks are handed to, or the
\* ValueError raised.
Dispatch(v, tag, cs) ==
  IF v = 7 /\ tag = _TAG_FC7
    THEN OneChunk(cs, "FCV7", "bytes_to_geojson_featurecollection_v7")
  ELSE IF v = 7 /\ tag = _TAG_GC7
    THEN OneChunk(cs, "GCV7", "bytes_to_geojson_geometrycollection_v7")
  ELSE IF tag = _TAG_GEOM THEN OneChunk(cs, "GEOM", "_bytes_to_geometry_v2")
  ELSE IF v = 7 /\ tag = _TAG_GCOL THEN Delegate("_bytes_to_geometry_v2 per chunk")
  ELSE IF tag = _TAG_FEAT
    THEN OneChunk(cs, "FEAT", IF v = 7 THEN "bytes_to_geojson_feature_v5"
                              ELSE "bytes_to_geojson_feature_v2")
  ELSE IF tag = _TAG_FCOL
    THEN OneChunk(cs, "FCOL", IF v = 7 THEN "bytes_to_geojson_featurecollection_v5"
                              ELSE "bytes_to_geojson_featurecollection_v6")
  ELSE IF v = 6 /\ tag = _TAG_GCOL
    THEN OneChunk(cs, "GCOL", "bytes_to_geojson_geometrycollection_v6")
  ELSE DispatchErr("Unknown envelope tag")

\* How many bytes an envelope of n bytes may have lost at its end: none, the
\* last one, or all but fewer than a tag's worth.
Cuts(n) == {0, 1} \cup {n - k : k \in 0..(_TAG_LEN - 1)}

\* The bytes an encoder returned for some tag and chunk list, whole or cut
\* short, arrive at a dispatcher.
InitEnvelope ==
  /\ CodecIdle /\ FeatIdle /\ QuantIdle /\ ThreadsIdle /\ LineIdle /\ TagsIdle /\ RangeIdle
  /\ \E v \in Versions, t \in TagPool, cs \in ChunkLists :
       LET e == _wrap(t, _pack_chunks(cs)).bytes
       IN \E cut \in Cuts(Len(e)) :
            /\ envelope = SubSeq(e, 1, Len(e) - cut)
            /\ ever = v /\ ecut = cut /\ packed = cs
  /\ etag = <<>> /\ epc = "start" /\ eout = ""
  /\ payload = <<>> /\ edit = "none" /\ upc = "idle"
  /\ un = 0 /\ offset = 0 /\ chunks = <<>> /\ uerr = ""

\* "tag, payload = _unwrap(data)", then _unpack_chunks(payload) is entered.
Unwrap ==
  /\ epc = "start"
  /\ LET r == _unwrap(envelope)
     IN IF r.err # ""
        THEN /\ epc' = "raised" /\ eout' = "Invalid data: too short"
             /\ UNCHANGED <<etag, payload, upc>>
        ELSE /\ etag' = r.tag
             /\ payload' = r.payload
             /\ upc' = "ready"
             /\ epc' = "unpack"
             /\ UNCHANGED eout
  /\ UNCHANGED <<codecVars, featVars, quantVars, threadVars,
                 lineVars, tagVars, rangeVars, envelope,
                 ever, ecut, packed, edit, un, offset, chunks, uerr>>

\* _unpack_chunks has raised (the error leaves the dispatcher) or returned
\* (the tag chain runs).
DispatchTag ==
  /\ epc = "unpack" /\ upc \in {"raised", "returned"}
  /\ IF upc = "raised"
     THEN epc' = "raised" /\ eout' = uerr
     ELSE LET r == Dispatch(ever, etag, chunks)
          IN IF r.err # ""
             THEN epc' = "raised" /\ eout' = r.err
             ELSE epc' = "delegated" /\ eout' = r.decoder
  /\ UNCHANGED <<codecVars, featVars, quantVars, threadVars,
                 lineVars, tagVars, rangeVars, chunkVars,
                 envelope, ever, ecut, etag>>

NextEnvelope ==
  \/ Unwrap
  \/ UnpackStart
  \/ UnpackChunk
  \/ UnpackFinish
  \/ DispatchTag

SpecEnvelope == InitEnvelope /\ [][NextEnvelope]_vars

\* C11: an envelope an encoder produced, for any tag and any chunk list
\* (the empty list and empty chunks included), with its last byte removed
\* never gets as far as a decoder: _unpack_chunks does not return for it and
\* the dispatcher ends by raising.
C11_TruncatedEnvelopeRaises ==
  ecut = 1 =>
    /\ upc # "returned"
    /\ epc # "delegated"
    /\ (epc = "raised" => eout # "")

C11_Witness ==
  /\ ecut = 1 /\ epc = "raised" /\ etag \in KnownTags(ever)
  /\ Len(packed) = 2 /\ packed[2] = <<>> /\ Len(chunks) = 1
  /\ eout = "truncated"

\* C13: bytes whose first four bytes are not a tag the dispatcher has a branch
\* for are never handed to a geometry or feature decoder; the call raises.
C13_UnknownTagRaises ==
  (PySlice(envelope, 0, _TAG_LEN) \notin KnownTags(ever)) =>
    /\ epc # "delegated"
    /\ (epc = "unpack" /\ upc = "returned" =>
          Dispatch(ever, etag, chunks).err = "Unknown envelope tag")

C13_Witness ==
  /\ ecut = 0 /\ epc = "raised" /\ eout = "Unknown envelope tag"
  /\ ever = 6 /\ etag = _TAG_GC7 /\ Len(chunks) = 1

\* C26: bytes_to_geojson_v7 on a well-formed chunk list: under GEOM, FEAT,
\* FCOL, FCV7 and GCV7 it raises "Invalid ... payload" unless there is exactly
\* one chunk, which it hands to that tag's decoder; under GCOL it raises for
\* no chunk count and decodes the chunks one by one.
C26_OneChunkButGCOL ==
  (ever = 7 /\ upc = "returned" /\ epc \in {"raised", "delegated"}) =>
    /\ (etag \in {_TAG_GEOM, _TAG_FEAT, _TAG_FCOL, _TAG_FC7, _TAG_GC7} =>
          IF Len(chunks) = 1 THEN epc = "delegated"
          ELSE /\ epc = "raised"
               /\ eout \in {"Invalid GEOM payload", "Invalid FEAT payload",
                            "Invalid FCOL payload", "Invalid FCV7 payload",
                            "Invalid GCV7 payload"})
    /\ (etag = _TAG_GCOL =>
          epc = "delegated" /\ eout = "_bytes_to_geometry_v2 per chunk")

C26_Witness ==
  /\ ever = 7 /\ upc = "returned" /\ epc = "raised"
  /\ etag = _TAG_FCOL /\ Len(chunks) = 2 /\ eout = "Invalid FCOL payload"

\* C12: _unpack_chunks(_pack_chunks(cs)) returns cs, the same chunks in the
\* same order, for every list cs, the empty list and empty chunks included:
\* on an unaltered payload the call never raises, the chunks read so far are
\* the first chunks of cs, and the list returned is cs.
C12_UnpackInvertsPack ==
  (edit = "none" /\ upc # "idle") =>
    /\ upc # "raised"
    /\ (upc = "loop" => un = Len(packed))
    /\ Len(chunks) <= Len(packed)
    /\ \A i \in 1..Len(chunks) : chunks[i] = packed[i]
    /\ (upc = "returned" => chunks = packed)

C12_Witness ==
  /\ edit = "none" /\ upc = "returned"
  /\ Len(packed) = 2 /\ packed[1] = <<>> /\ packed[2] # <<>>
  /\ chunks = packed

------------------------------------------------------------------------------
(* Quantization in floating point: _quantize / _dequantize (v2), _q / _uq   *)
(* (v6).  float(v) * scale and q / scale are rounded to the nearest float,   *)
(* ties to the even mantissa, as binary64 does; the mantissa has             *)
(* MantissaBits bits instead of 53, and exponents are not limited.  The      *)
(* exact _q above is this function wherever the product needs no rounding.   *)

MantissaBits == 5   \* bits of a float's mantissa
MaxScale == 7       \* largest scale tried

Pow2(k) == 2 ^ k

\* x as the fraction n/d of two positive integers scaled by 2^e.
Scaled(n, d, e) ==
  [n |-> IF e < 0 THEN n * Pow2(0 - e) ELSE n, d |-> IF e > 0 THEN d * Pow2(e) ELSE d]

\* The exponent e with 2^(MantissaBits-1) <= (n/d) / 2^e < 2^MantissaBits.
Exponent(n, d) ==
  CHOOSE e \in (0 - 2 * MantissaBits)..(2 * MantissaBits) :
    LET x == Scaled(n, d, e)
    IN /\ x.n >= Pow2(MantissaBits - 1) * x.d
       /\ x.n < Pow2(MantissaBits) * x.d

\* The float nearest to the real number x, ties to the even mantissa.
Fl(x) ==
  IF x.n = 0 THEN x
  ELSE LET e == Exponent(Abs(x.n), x.d)
           y == Scaled(Abs(x.n), x.d, e)
           m == RoundHalfEven(y.n \div y.d, y.n % y.d, y.d)
           sign == IF x.n < 0 THEN 0 - 1 ELSE 1
       IN Float(sign * m * (IF e > 0 THEN Pow2(e) ELSE 1), IF e < 0 THEN Pow2(0 - e) ELSE 1)

\* round(x) of a float x: the nearest integer, ties to the even one.
PyRound(x) == RoundHalfEven(x.n \div x.d, x.n % x.d, x.d)

\* A mutant of _quantize: int() of the product, without round().
_quantize_trunc(v, sc) ==
  LET x == Fl(Float(v.n * sc, v.d))
  IN IF x.n >= 0 THEN x.n \div x.d ELSE 0 - ((0 - x.n) \div x.d)

\* int(round(float(v) * scale))
_quantize(v, sc) == PyRound(Fl(Float(v.n * sc, v.d)))

\* float(vi) / float(scale)
_dequantize(vi, sc) == Fl(Float(vi, sc))

\* The floats m / 2^k with a mantissa of at most MantissaBits bits, both signs.
FloatPool ==
  {Float(sg * m, Pow2(k)) : sg \in {0 - 1, 1}, m \in 0..(Pow2(MantissaBits) - 1),
                            k \in 0..MantissaBits}

InitQuantize ==
  /\ CodecIdle /\ ChunkIdle /\ EnvIdle /\ FeatIdle /\ ThreadsIdle /\ RangeIdle
  /\ LineIdle /\ TagsIdle
  /\ qv \in FloatPool
  /\ qscale \in 1..MaxScale
  /\ qq = 0 /\ qd = Float(0, 1) /\ qpc = "start"

Quantize ==
  /\ qpc = "start"
  /\ qq' = _quantize(qv, qscale)
  /\ qpc' = "quantized"
  /\ UNCHANGED <<codecVars, chunkVars, envVars, featVars, threadVars,
                 lineVars, tagVars, rangeVars, qv,
                 qscale, qd>>

Dequantize ==
  /\ qpc = "quantized"
  /\ qd' = _dequantize(qq, qscale)
  /\ qpc' = "dequantized"
  /\ UNCHANGED <<codecVars, chunkVars, envVars, featVars, threadVars,
                 lineVars, tagVars, rangeVars, qv,
                 qscale, qq>>

NextQuantize ==
  \/ Quantize
  \/ Dequantize

SpecQuantize == InitQuantize /\ [][NextQuantize]_vars

\* |a - b| as a float, and a <= b, for exact fractions.
Dist(a, b) == Float(Abs(a.n * b.d - b.n * a.d), a.d * b.d)

Leq(a, b) == a.n * b.d <= b.n * a.d

Plus(a, b) == Float(a.n * b.d + b.n * a.d, a.d * b.d)

------------------------------------------------------------------------------
(* bytes_to_geojson_feature_v5: the output dict and the merge of feat.extra. *)
(* A dict is a function from its keys; a JSON value is its text.             *)

_RESERVED_TOPLEVEL == {"type", "geometry", "properties", "id", "bbox"}

\* The keys an extension map is given: the reserved ones and others.
ExtraKeys == _RESERVED_TOPLEVEL \cup {"name", "title"}

\* The Feature messages handed to the decoder.  geometry is the kind the six
\* v2 decoders find, or "none" when all of them fail; properties and the
\* values of extra are JSON text; bbox is the list of doubles.
FeatPool ==
  [geometry : {"Point", "none"},
   properties : {"{}", "{\"a\": 1}"},
   id : {"", "f1"},
   bbox : {<<>>, <<0, 1>>, <<0, 0, 1, 1>>, <<0, 0, 0, 1, 1, 1>>},
   extra : UNION {[K -> {"\"x\""}] : K \in SUBSET ExtraKeys}]

\* out[k] = v
SetKey(out, k, v) == [j \in DOMAIN out \cup {k} |-> IF j = k THEN v ELSE out[j]]

\* A mutant of MergeKey: the extension value is stored whatever out holds.
MergeKeyOverwriting(out, k, v) == SetKey(out, k, v)

\* "if k not in out: out[k] = v"
MergeKey(out, k, v) == IF k \in DOMAIN out THEN out ELSE SetKey(out, k, v)

BboxText(b) == IF Len(b) = 4 THEN "[0, 0, 1, 1]" ELSE "[0, 0, 0, 1, 1, 1]"

\* out after the dedicated fields: type, geometry, properties, then id when
\* feat.id is non-empty and bbox when feat.bbox has 4 or 6 numbers.
FieldsOut(f) ==
  LET o1 == [k \in {"type", "geometry", "properties"} |->
               CASE k = "type" -> "\"Feature\""
                 [] k = "geometry" -> "{\"type\": \"Point\"}"
                 [] OTHER -> IF f.properties = "{}" THEN "null" ELSE f.properties]
      o2 == IF f.id # "" THEN SetKey(o1, "id", "\"f1\"") ELSE o1
  IN IF Len(f.bbox) \in {4, 6} THEN SetKey(o2, "bbox", BboxText(f.bbox)) ELSE o2

\* The GeoJSON Features handed to the encoder.  A member that is missing is
\* "absent"; properties is JSON text (an object, null, or a list, which is no
\* object); extra holds the top-level members that are not reserved.
ObjPool ==
  [geometry : {"Point", "null"},
   properties : {"absent", "null", "{}", "{\"a\": 1}", "[1]"},
   id : {"absent", "f1"},
   bbox : {<<>>, <<0, 0, 1, 1>>},
   extra : UNION {[K -> {"\"x\""}] : K \in SUBSET {"name"}}]

\* obj.get(k): None for a missing member as for a null one.
PyGet(v) == IF v = "absent" THEN "null" ELSE v

\* A mutant of _dict_to_struct: None becomes a Struct that is told apart from
\* the empty one.
_dict_to_struct_null(d) == IF d = "null" THEN "{\"\": null}" ELSE d

\* Struct(), updated with d unless d is None.
_dict_to_struct(d) == IF d = "null" THEN "{}" ELSE d

\* geojson_feature_to_bytes_v5 up to SerializeToString: the Feature message.
geojson_feature_to_pb_v5(obj) ==
  LET pr == PyGet(obj.properties)
  IN IF obj.geometry = "null" THEN [err |-> "ValueError", feat |-> NoFeat]
     ELSE IF pr \notin {"null", "{}", "{\"a\": 1}"}
     THEN [err |-> "ValueError", feat |-> NoFeat]
     ELSE [err |-> "",
           feat |-> [geometry |-> obj.geometry,
                     properties |-> _dict_to_struct(pr),
                     id |-> IF obj.id = "absent" THEN "" ELSE obj.id,
                     bbox |-> IF Len(obj.bbox) \in {4, 6} THEN obj.bbox ELSE <<>>,
                     extra |-> obj.extra]]

\* The decoder is handed either a Feature message of any content, or the
\* message the encoder makes of a GeoJSON Feature.
InitFeature ==
  /\ CodecIdle /\ ChunkIdle /\ EnvIdle /\ QuantIdle /\ ThreadsIdle /\ RangeIdle
  /\ LineIdle /\ TagsIdle
  /\ \/ feat \in FeatPool /\ fobj = NoObj /\ fpc = "start"
     \/ feat = NoFeat /\ fobj \in ObjPool /\ fpc = "input"
  /\ fout = <<>> /\ fleft = {} /\ fbase = <<>>

\* geojson_feature_to_bytes_v5, its bytes then handed to the decoder.
EncodeFeature ==
  /\ fpc = "input"
  /\ LET r == geojson_feature_to_pb_v5(fobj)
     IN IF r.err # "" THEN fpc' = "enc_raised" /\ UNCHANGED feat
        ELSE feat' = r.feat /\ fpc' = "start"
  /\ UNCHANGED <<codecVars, chunkVars, envVars, quantVars, threadVars,
                 lineVars, tagVars, rangeVars,
                 fout, fleft, fbase, fobj>>

\* Up to the merge: the geometry is decoded (ValueError when no decoder takes
\* it) and out is built from the dedicated fields.
DecodeFields ==
  /\ fpc = "start"
  /\ IF feat.geometry = "none"
     THEN /\ fpc' = "raised"
          /\ UNCHANGED <<fout, fleft, fbase>>
     ELSE /\ fout' = FieldsOut(feat)
          /\ fbase' = FieldsOut(feat)
          /\ fleft' = DOMAIN feat.extra
          /\ fpc' = "merge"
  /\ UNCHANGED <<codecVars, chunkVars, envVars, quantVars, threadVars,
                 lineVars, tagVars, rangeVars,
                 feat, fobj>>

\* One iteration of "for k, v in extra_dict.items()".
MergeExtra ==
  /\ fpc = "merge"
  /\ \E k \in fleft :
       /\ fout' = MergeKey(fout, k, feat.extra[k])
       /\ fleft' = fleft \ {k}
  /\ UNCHANGED <<codecVars, chunkVars, envVars, quantVars, threadVars,
                 lineVars, tagVars, rangeVars,
                 feat, fbase, fpc, fobj>>

\* "return out"
ReturnFeature ==
  /\ fpc = "merge" /\ fleft = {}
  /\ fpc' = "returned"
  /\ UNCHANGED <<codecVars, chunkVars, envVars, quantVars, threadVars,
                 lineVars, tagVars, rangeVars,
                 feat, fout, fleft, fbase, fobj>>

NextFeature ==
  \/ EncodeFeature
  \/ DecodeFields
  \/ MergeExtra
  \/ ReturnFeature

SpecFeature == InitFeature /\ [][NextFeature]_vars

\* C20: during and after the merge of the extension map, every key the
\* dedicated fields put in out keeps its value: type, geometry, properties,
\* id when feat.id is set and bbox when feat.bbox has 4 or 6 numbers.
C20_MergeKeepsFields ==
  fpc \in {"merge", "returned"} =>
    /\ {"type", "geometry", "properties"} \subseteq DOMAIN fbase
    /\ (feat.id # "" => "id" \in DOMAIN fbase)
    /\ (Len(feat.bbox) \in {4, 6} => "bbox" \in DOMAIN fbase)
    /\ \A k \in DOMAIN fbase : k \in DOMAIN fout /\ fout[k] = fbase[k]

C20_Witness ==
  /\ fpc = "returned"
  /\ feat.id # "" /\ Len(feat.bbox) = 4
  /\ DOMAIN feat.extra = {"type", "geometry", "id", "bbox", "name"}
  /\ fout["name"] = "\"x\""
  /\ fout["id"] = "\"f1\"" /\ fout["type"] = "\"Feature\""

\* C21: a Feature whose properties are {}, null or missing is encoded to the
\* one message, whichever of the three it has, and decodes to properties null.
C21_EmptyPropertiesAreNull ==
  (fobj # NoObj /\ fobj.properties \in {"absent", "null", "{}"}
     /\ fpc \in {"start", "merge", "returned"}) =>
    /\ \A q \in {"absent", "null", "{}"} :
         geojson_feature_to_pb_v5([fobj EXCEPT !.properties = q])
           = [err |-> "", feat |-> feat]
    /\ (fpc \in {"merge", "returned"} => fout["properties"] = "null")

C21_Witness ==
  /\ fobj # NoObj /\ fobj.properties = "{}" /\ fpc = "returned"
  /\ fobj.id = "f1" /\ DOMAIN fobj.extra = {"name"}
  /\ fout["properties"] = "null" /\ fout["name"] = "\"x\""

------------------------------------------------------------------------------
(* Two calls of the streaming codec in two threads.  Everything a call      *)
(* works on is a local of its own frame: cursor, pb or qpts, fc or the      *)
(* output list.  A step is one loop iteration of one call.                  *)

Threads == {1, 2}

\* The collections the calls are made on: two members each.
ThreadCollections ==
  LET pool == <<Geom("MultiPoint", <<PB, PC>>), Geom("LineString", <<PC, PA>>),
                Geom("Polygon", <<<<PA, PB, PC, PA>>>>)>>
  IN {<<pool[a], pool[b]>> : a, b \in 1..Len(pool)}

\* The frame of a call before its first statement.  An encode call is given
\* gs and sc; a decode call the message an encoder made of gs with sc.
Frame(mode, gs, sc) ==
  [mode |-> mode, gs |-> gs, sc |-> sc,
   msg |-> IF mode = "decode" THEN ReEncode(gs, sc).fc ELSE NoFc,
   pc |-> "start", k |-> 1, i |-> 0, cursor |-> <<0, 0>>, base |-> <<0, 0>>,
   d |-> <<>>, qpts |-> <<>>, fc |-> NoFc, out |-> <<>>]

InitThreads ==
  /\ CodecIdle /\ ChunkIdle /\ EnvIdle /\ FeatIdle /\ QuantIdle /\ RangeIdle
  /\ LineIdle /\ TagsIdle
  /\ \E mode \in {"encode", "decode"} :
       \E gs \in [Threads -> ThreadCollections], sc \in [Threads -> {1, 3}] :
         calls = [t \in Threads |-> Frame(mode, gs[t], sc[t])]

\* A mutant of CursorOf: the cursor is one variable that all calls share, the
\* one of the first call.
CursorOfShared(cs, t) == cs[1].cursor

\* The cursor call t reads: its own local.
CursorOf(cs, t) == cs[t].cursor

Idle == UNCHANGED <<codecVars, chunkVars, envVars, featVars, quantVars, rangeVars,
                    lineVars, tagVars>>

\* Up to the loop over the members: the anchor (encode) or the stored global
\* start (decode) becomes the cursor.
CallStart(t) ==
  /\ calls[t].pc = "start"
  /\ LET c == calls[t]
         first == _first_coord_of_geometry(c.gs[1])
         start == QPoint(first.xy, c.sc)
     IN calls' = [calls EXCEPT ![t] =
          IF c.mode = "encode"
          THEN IF first.err # "" THEN [c EXCEPT !.pc = "raised"]
               ELSE [c EXCEPT !.pc = "member", !.cursor = start,
                              !.fc = [crs_scale |-> c.sc, global_start |-> start,
                                      geometries |-> <<>>]]
          ELSE [c EXCEPT !.pc = "member", !.cursor = c.msg.global_start]]
  /\ Idle

\* _encode_stream_geometry / _decode_stream_geometry up to the loop over the
\* points of member k.
MemberStart(t) ==
  /\ calls[t].pc = "member"
  /\ LET c == calls[t]
         n == IF c.mode = "encode" THEN Len(c.gs) ELSE Len(c.msg.geometries)
     IN /\ c.k <= n
        /\ calls' = [calls EXCEPT ![t] =
             IF c.mode = "encode"
             THEN IF ~IsObject(c.gs[c.k]) \/ _flatten_geometry(c.gs[c.k]).err # ""
                  THEN [c EXCEPT !.pc = "raised"]
                  ELSE [c EXCEPT !.pc = "points", !.i = 0, !.d = <<>>,
                                 !.base = CursorOf(calls, t)]
             ELSE IF c.msg.geometries[c.k].n_points # Len(c.msg.geometries[c.k].d)
                  THEN [c EXCEPT !.pc = "raised"]
                  ELSE [c EXCEPT !.pc = "points", !.i = 0, !.qpts = <<>>,
                                 !.base = CursorOf(calls, t)]]
  /\ Idle

\* One iteration of "for (x, y) in flat_pts" or of "for d in pb.d".
PointStep(t) ==
  /\ calls[t].pc = "points"
  /\ LET c == calls[t]
         cur == CursorOf(calls, t)
     IN IF c.mode = "encode"
        THEN LET flat == _flatten_geometry(c.gs[c.k]).flat
                 qp == QPoint(flat[c.i + 1], c.sc)
             IN /\ c.i < Len(flat)
                /\ calls' = [calls EXCEPT ![t] =
                     [c EXCEPT !.i = c.i + 1, !.cursor = qp,
                               !.d = Append(c.d, [dx |-> qp[1] - cur[1],
                                                  dy |-> qp[2] - cur[2]])]]
        ELSE LET ds == c.msg.geometries[c.k].d
                 c2 == <<cur[1] + ds[c.i + 1].dx, cur[2] + ds[c.i + 1].dy>>
             IN /\ c.i < Len(ds)
                /\ calls' = [calls EXCEPT ![t] =
                     [c EXCEPT !.i = c.i + 1, !.cursor = c2,
                               !.qpts = Append(c.qpts, c2)]]
  /\ Idle

\* The points of member k are done: the StreamGeometry is appended to the
\* message, or the rebuilt geometry to the output list.
MemberEnd(t) ==
  /\ calls[t].pc = "points"
  /\ LET c == calls[t]
         f == _flatten_geometry(c.gs[c.k])
         r == RebuildNesting(c.msg.geometries[c.k], c.qpts, CursorOf(calls, t),
                             c.base, c.sc)
     IN IF c.mode = "encode"
        THEN /\ c.i = Len(f.flat)
             /\ calls' = [calls EXCEPT ![t] =
                  [c EXCEPT !.pc = "member", !.k = c.k + 1,
                            !.fc.geometries =
                              Append(@, [type |-> f.gtype, n_points |-> Len(f.flat),
                                         part_sizes |-> f.part_sizes,
                                         poly_ring_counts |-> f.poly_ring_counts,
                                         d |-> c.d])]]
        ELSE /\ c.i = Len(c.msg.geometries[c.k].d)
             /\ calls' = [calls EXCEPT ![t] =
                  IF r.err # "" THEN [c EXCEPT !.pc = "raised"]
                  ELSE [c EXCEPT !.pc = "member", !.k = c.k + 1,
                                 !.out = Append(@, r.geom)]]
  /\ Idle

\* The loop over the members is over: the call returns.
CallReturn(t) ==
  /\ calls[t].pc = "member"
  /\ LET c == calls[t]
         n == IF c.mode = "encode" THEN Len(c.gs) ELSE Len(c.msg.geometries)
     IN /\ c.k > n
        /\ calls' = [calls EXCEPT ![t] = [c EXCEPT !.pc = "returned"]]
  /\ Idle

NextThreads ==
  \/ \E t \in Threads : CallStart(t)
  \/ \E t \in Threads : MemberStart(t)
  \/ \E t \in Threads : PointStep(t)
  \/ \E t \in Threads : MemberEnd(t)
  \/ \E t \in Threads : CallReturn(t)

SpecThreads == InitThreads /\ [][NextThreads]_vars

\* The decoder's loop run alone over the members of a message.
RECURSIVE DecodeAlone(_, _, _, _)
DecodeAlone(pbs, cur, sc, acc) ==
  IF Len(pbs) = 0 THEN [err |-> "", out |-> acc]
  ELSE LET r == _decode_stream_geometry(Head(pbs), cur, sc)
       IN IF r.err # "" THEN [err |-> r.err, out |-> <<>>]
          ELSE DecodeAlone(Tail(pbs), r.cursor, sc, Append(acc, r.geom))

\* C22: whatever the interleaving of the two calls' steps, a call that has
\* returned holds the output it produces when run alone, and no call raises
\* that does not raise alone.
C22_CallsDoNotInterfere ==
  \A t \in DOMAIN calls :
    LET c == calls[t]
    IN /\ (c.pc = "returned" /\ c.mode = "encode") =>
            ReEncode(c.gs, c.sc) = [err |-> "", fc |-> c.fc]
       /\ (c.pc = "returned" /\ c.mode = "decode") =>
            DecodeAlone(c.msg.geometries, c.msg.global_start, c.sc, <<>>)
              = [err |-> "", out |-> c.out]
       /\ c.pc # "raised"

\* Both calls have returned after their point steps alternated, on different
\* collections.
C22_Witness ==
  /\ DOMAIN calls = Threads
  /\ calls[1].pc = "returned" /\ calls[2].pc = "returned"
  /\ calls[1].mode = "decode"
  /\ calls[1].gs # calls[2].gs /\ calls[1].sc # calls[2].sc
  /\ calls[1].out # calls[2].out
  /\ Len(calls[1].out) = 2

------------------------------------------------------------------------------
(* The size of the integers stored with the scale get_scaler returns.  A    *)
(* quantized coordinate is a Python int; a difference of two of them is     *)
(* kept here as [h, l] = h * Limb + l with 0 <= l < Limb, so that no        *)
(* intermediate value depends on the width of the checker's integers.       *)

\* get_scaler, by what CRS.from_epsg reports about the reference system.
get_scaler(crs) ==
  CASE crs = "geographic" -> 10000000
    [] crs = "metre" -> 100
    [] crs = "foot" -> 3048
    [] OTHER -> 100

Limb == 2 ^ 16

Wide(n) == [h |-> n \div Limb, l |-> n % Limb]

\* a - b of two Python ints.
WideSub(a, b) ==
  LET x == Wide(a)
      y == Wide(b)
  IN IF x.l - y.l < 0 THEN [h |-> x.h - y.h - 1, l |-> x.l - y.l + Limb]
     ELSE [h |-> x.h - y.h, l |-> x.l - y.l]

\* n + w for a Python int n.
WideAdd(n, w) ==
  LET x == Wide(n)
  IN IF x.l + w.l >= Limb THEN [h |-> x.h + w.h + 1, l |-> x.l + w.l - Limb]
     ELSE [h |-> x.h + w.h, l |-> x.l + w.l]

\* Whether w is a value of a signed integer of the given number of bits.
FitsSigned(w, bits) ==
  /\ w.h >= 0 - 2 ^ (bits - 17)
  /\ w.h <= 2 ^ (bits - 17) - 1

\* A mutant of PyInt: the value wraps around at 32 bits.
PyIntWrap32(w) == [h |-> ((w.h + 2 ^ 15) % (2 ^ 16)) - 2 ^ 15, l |-> w.l]

\* int(...) of a Python int: the same number, of any size.
PyInt(w) == w

\* Longitudes and latitudes in degrees, up to the ends of their ranges.
Longitudes == {Float(0 - 180, 1), Float(0 - 1799, 10), Float(0, 1), Float(1, 2),
               Float(348, 10), Float(1799, 10), Float(180, 1)}
Latitudes == {Float(0 - 90, 1), Float(0, 1), Float(523, 10), Float(90, 1)}

InitRange ==
  /\ CodecIdle /\ ChunkIdle /\ EnvIdle /\ FeatIdle /\ QuantIdle /\ ThreadsIdle
  /\ LineIdle /\ TagsIdle
  /\ rline \in SeqsUpTo(Longitudes \X Latitudes, 1, MaxPts)
  /\ ranchor = <<0, 0>> /\ rcursor = <<0, 0>> /\ rdeltas = <<>>
  /\ rpc = "start"

\* The absolute start: global_start of a stream, start of a v2 line or ring.
StoreAnchor ==
  /\ rpc = "start"
  /\ ranchor' = QPoint(rline[1], get_scaler("geographic"))
  /\ rcursor' = QPoint(rline[1], get_scaler("geographic"))
  /\ rpc' = "loop"
  /\ UNCHANGED <<codecVars, chunkVars, envVars, featVars, quantVars, threadVars,
                 lineVars, tagVars,
                 rline, rdeltas>>

\* One iteration of "for (x, y) in flat_pts": d.dx = int(qx - cursor_x), ...
StoreDelta ==
  /\ rpc = "loop" /\ Len(rdeltas) < Len(rline)
  /\ LET qp == QPoint(rline[Len(rdeltas) + 1], get_scaler("geographic"))
     IN /\ rdeltas' = Append(rdeltas, [dx |-> PyInt(WideSub(qp[1], rcursor[1])),
                                       dy |-> PyInt(WideSub(qp[2], rcursor[2]))])
        /\ rcursor' = qp
  /\ UNCHANGED <<codecVars, chunkVars, envVars, featVars, quantVars, threadVars,
                 lineVars, tagVars,
                 rline, ranchor, rpc>>

\* The loop is over.
StoreDone ==
  /\ rpc = "loop" /\ Len(rdeltas) = Len(rline)
  /\ rpc' = "done"
  /\ UNCHANGED <<codecVars, chunkVars, envVars, featVars, quantVars, threadVars,
                 lineVars, tagVars,
                 rline, ranchor, rcursor, rdeltas>>

NextRange ==
  \/ StoreAnchor
  \/ StoreDelta
  \/ StoreDone

SpecRange == InitRange /\ [][NextRange]_vars

------------------------------------------------------------------------------
(* The collection tags across the generations of the top-level codec:       *)
(* geojson_to_bytes_vN writes an envelope, bytes_to_geojson_vM reads it.    *)
(* A chunk is known here by the message serialized into it.                 *)

Generations == {2, 4, 5, 6, 7}

CollectionKinds == {"FeatureCollection", "GeometryCollection"}

\* n chunks holding message m each.
Layout(n, m) == [i \in 1..n |-> m]

\* The FeatureCollection and GeometryCollection branches of
\* geojson_to_bytes_v2, _v4, _v5, _v6 and _v7: the tag, and per chunk the
\* message in it.  A v2 feature is serialized as its bare v2 Geometry.
geojson_to_bytes(gen, t, n) ==
  IF t = "FeatureCollection"
  THEN CASE gen = 2 -> [tag |-> _TAG_FCOL, chunks |-> Layout(n, "sf.v2.Geometry")]
         [] gen = 4 -> [tag |-> _TAG_FCOL, chunks |-> <<"v4 FeatureCollection">>]
         [] gen = 5 -> [tag |-> _TAG_FCOL, chunks |-> <<"sf.v5.FeatureCollection">>]
         [] gen = 6 -> [tag |-> _TAG_FCOL, chunks |-> <<"sf.v6.FeatureCollectionStream">>]
         [] gen = 7 -> [tag |-> _TAG_FC7, chunks |-> <<"v7 FeatureCollection">>]
  ELSE CASE gen = 2 -> [tag |-> _TAG_GCOL, chunks |-> Layout(n, "sf.v2.Geometry")]
         [] gen = 4 -> [tag |-> _TAG_GCOL, chunks |-> Layout(n, "sf.v1.Geometry")]
         [] gen = 5 -> [tag |-> _TAG_GCOL, chunks |-> Layout(n, "sf.v2.Geometry")]
         [] gen = 6 -> [tag |-> _TAG_GCOL, chunks |-> <<"sf.v6.GeometryCollectionStream">>]
         [] gen = 7 -> [tag |-> _TAG_GC7, chunks |-> <<"v7 GeometryCollection">>]

\* The message each decoder the v6 and v7 dispatchers delegate to parses.
MessageOf(dec) ==
  CASE dec \in {"_bytes_to_geometry_v2", "_bytes_to_geometry_v2 per chunk",
                "bytes_to_geojson_feature_v2"} -> "sf.v2.Geometry"
    [] dec = "bytes_to_geojson_feature_v5" -> "sf.v5.Feature"
    [] dec = "bytes_to_geojson_featurecollection_v5" -> "sf.v5.FeatureCollection"
    [] dec = "bytes_to_geojson_featurecollection_v6" -> "sf.v6.FeatureCollectionStream"
    [] dec = "bytes_to_geojson_geometrycollection_v6" -> "sf.v6.GeometryCollectionStream"
    [] dec = "bytes_to_geojson_featurecollection_v7" -> "v7 FeatureCollection"
    [] dec = "bytes_to_geojson_geometrycollection_v7" -> "v7 GeometryCollection"

ReadErr(e) == [err |-> e, expects |-> <<>>]

ReadAs(n, m) == [err |-> "", expects |-> Layout(n, m)]

\* The "if tag == ..." chains of bytes_to_geojson_v2, _v4, _v5, _v6 and _v7
\* on a collection tag: the error raised on the number of chunks, or the
\* message every chunk is parsed as.
bytes_to_geojson(gen, env) ==
  LET n == Len(env.chunks)
      one(name, m) == IF n # 1 THEN ReadErr("Invalid " \o name \o " payload")
                      ELSE ReadAs(1, m)
  IN IF gen \in {6, 7}
     THEN LET r == Dispatch(gen, env.tag, env.chunks)
          IN IF r.err # "" THEN ReadErr(r.err) ELSE ReadAs(n, MessageOf(r.decoder))
     ELSE IF env.tag = _TAG_GCOL
       THEN ReadAs(n, IF gen = 4 THEN "sf.v1.Geometry" ELSE "sf.v2.Geometry")
     ELSE IF env.tag = _TAG_FCOL
       THEN CASE gen = 2 -> ReadAs(n, "sf.v2.Geometry")
              [] gen = 4 -> one("FCOL", "v4 FeatureCollection")
              [] gen = 5 -> one("FCOL", "sf.v5.FeatureCollection")
     ELSE ReadErr("Unknown envelope tag")

InitTags ==
  /\ CodecIdle /\ ChunkIdle /\ EnvIdle /\ FeatIdle /\ QuantIdle /\ ThreadsIdle
  /\ RangeIdle /\ LineIdle
  /\ wgen \in Generations /\ rgen \in Generations
  /\ wobj \in [type : CollectionKinds, n : 1..MaxGeoms]
  /\ wenv = NoEnvelope /\ tpc = "start" /\ tout = NoRead

\* geojson_to_bytes_vN(obj) of the writing generation.
WriteCollection ==
  /\ tpc = "start"
  /\ wenv' = geojson_to_bytes(wgen, wobj.type, wobj.n)
  /\ tpc' = "written"
  /\ UNCHANGED <<codecVars, chunkVars, envVars, featVars, quantVars, threadVars,
                 rangeVars, lineVars, wgen, rgen, wobj, tout>>

\* bytes_to_geojson_vM(data) of the reading generation.
ReadCollection ==
  /\ tpc = "written"
  /\ tout' = bytes_to_geojson(rgen, wenv)
  /\ tpc' = "read"
  /\ UNCHANGED <<codecVars, chunkVars, envVars, featVars, quantVars, threadVars,
                 rangeVars, lineVars, wgen, rgen, wobj, wenv>>

NextTags ==
  \/ WriteCollection
  \/ ReadCollection

SpecTags == InitTags /\ [][NextTags]_vars

\* C27: each collection tag denotes one payload layout: whatever generation
\* wrote an envelope tagged FCOL or GCOL, every generation that has a branch
\* for the tag takes the chunks for what the writer put into them: the same
\* number of chunks, each parsed as the message that was serialized.
C27_OneLayoutPerTag ==
  (tpc = "read" /\ wenv.tag \in {_TAG_FCOL, _TAG_GCOL}) =>
    /\ tout.err = ""
    /\ tout.expects = wenv.chunks

------------------------------------------------------------------------------
(* geojson_linestring_to_pb (v2), one iteration of its loop over the        *)
(* coordinates at a time: the pair is checked and quantized onto q, then    *)
(* g is made and filled from the whole of q.                                *)

\* A member of "coordinates" that is no pair: [].
InvalidPair == <<>>

LineCoords == SeqsUpTo(Pts \cup {InvalidPair}, 0, MaxPts + 1)

\* A mutant of FillLine: g is made once, before the loop, and every iteration
\* appends its deltas to those g already holds.
FillLineKept(g, q, sc) ==
  LET dl == DeltaLine(q)
      had == IF g.which = "" THEN DeltaLine(<<q[1]>>) ELSE g.body
  IN Msg(sc, "line_string",
         [start |-> dl.start, dx |-> had.dx \o dl.dx, dy |-> had.dy \o dl.dy])

\* "g = geometry_pb2.Geometry()" and what follows it inside the loop body: a
\* new message, start = q[0], the deltas of q[1:].  The g of the iteration
\* before is dropped.
FillLine(g, q, sc) == Msg(sc, "line_string", DeltaLine(q))

InitLine ==
  /\ CodecIdle /\ ChunkIdle /\ EnvIdle /\ FeatIdle /\ QuantIdle /\ ThreadsIdle
  /\ RangeIdle /\ TagsIdle
  /\ lcoords \in LineCoords /\ lscale \in Scales
  /\ lq = <<>> /\ lg = Msg(0, "", <<>>) /\ li = 0 /\ lpc = "start"

\* The checks before the loop: at least two coordinates, _require_scale.
LineEnter ==
  /\ lpc = "start"
  /\ lpc' = IF Len(lcoords) < 2 \/ lscale <= 0 THEN "raised" ELSE "loop"
  /\ UNCHANGED <<codecVars, chunkVars, envVars, featVars, quantVars, threadVars,
                 rangeVars, tagVars, lcoords, lscale, lq, lg, li>>

\* One iteration of "for i, pair in enumerate(coords)".
LineIteration ==
  /\ lpc = "loop" /\ li < Len(lcoords)
  /\ LET pair == lcoords[li + 1]
     IN IF Len(pair) < 2
        THEN lpc' = "raised" /\ UNCHANGED <<lq, lg, li>>
        ELSE LET q == Append(lq, QPoint(pair, lscale))
             IN /\ lq' = q
                /\ lg' = FillLine(lg, q, lscale)
                /\ li' = li + 1
                /\ UNCHANGED lpc
  /\ UNCHANGED <<codecVars, chunkVars, envVars, featVars, quantVars, threadVars,
                 rangeVars, tagVars, lcoords, lscale>>

\* "return g"
LineReturn ==
  /\ lpc = "loop" /\ li = Len(lcoords)
  /\ lpc' = "returned"
  /\ UNCHANGED <<codecVars, chunkVars, envVars, featVars, quantVars, threadVars,
                 rangeVars, tagVars, lcoords, lscale, lq, lg, li>>

NextLine ==
  \/ LineEnter
  \/ LineIteration
  \/ LineReturn

SpecLine == InitLine /\ [][NextLine]_vars

\* C28: for a LineString of n >= 2 valid coordinates the message returned has
\* the first quantized point as its start and exactly n - 1 entries in dx and
\* in dy, entry i being the difference of the quantized points i + 1 and i,
\* although the message is made and filled anew in every iteration; it is the
\* message the one-pass form of the encoder gives.
C28_LineFilledOnce ==
  lpc = "returned" =>
    LET n == Len(lcoords)
        qp(i) == QPoint(lcoords[i], lscale)
        ls == lg.body
    IN /\ n >= 2
       /\ lg.which = "line_string" /\ lg.crs_scale = lscale
       /\ ls.start = qp(1)
       /\ Len(ls.dx) = n - 1 /\ Len(ls.dy) = n - 1
       /\ \A i \in 1..(n - 1) :
            /\ ls.dx[i] = qp(i + 1)[1] - qp(i)[1]
            /\ ls.dy[i] = qp(i + 1)[2] - qp(i)[2]
       /\ lg = geojson_linestring_to_pb(Geom("LineString", lcoords), lscale).msg

\* Three coordinates went through the loop, the message was made three times,
\* and the deltas returned are not all zero.
C28_Witness ==
  /\ lpc = "returned" /\ Len(lcoords) = 3 /\ li = 3
  /\ lcoords[1] # lcoords[2] /\ lcoords[2] # lcoords[3]
  /\ Len(lg.body.dx) = 2 /\ lg.body.dx[1] # 0 /\ lg.body.dx[2] # 0

====
